---- MODULE Spec2Model ----
(***************************************************************************)
(* The on-chain part of polyverify: ProofVerifier.sol, AuditorRegistry.sol *)
(* and ZKVerifierGroth16.sol, as one state machine.  Every transaction is  *)
(* one atomic step: it either runs to its end or reverts and leaves the    *)
(* storage of all three contracts as it was.  For every function there is  *)
(* an operator that gives the revert reason of a call in the current state *)
(* ("" when the call runs to its end) and one that gives its outcome: the  *)
(* storage it leaves and the events it emits.                              *)
(***************************************************************************)
EXTENDS Integers, Sequences, FiniteSets, TLC

\* ------------------------------------------------------------------------
\* Bounds of the model
\* ------------------------------------------------------------------------
\* externally owned accounts are the addresses 1..MaxAddr
MaxAddr == 2
\* credential ids are the bytes32 values 0..MaxId
MaxId == 1
\* proof ids are the bytes32 values 0..MaxProofId
MaxProofId == 1
\* summary hashes are the bytes32 values 0..MaxHash
MaxHash == 1
\* block.timestamp runs over 1..MaxTime
MaxTime == 2
\* auditorList holds at most MaxList entries
MaxList == 2

\* ------------------------------------------------------------------------
\* Addresses
\* ------------------------------------------------------------------------
ZeroAddr == 0
Accounts == 1..MaxAddr
Addr == 0..MaxAddr
\* the deployed contracts
RegistryAddr == MaxAddr + 1
ZKAddr == MaxAddr + 2
PVAddr == MaxAddr + 3
Groth16Addr == MaxAddr + 4
\* the address ecrecover yields for a (hash, v, r, s) that no key of the
\* model produced: an address nobody controls
StrayAddr == MaxAddr + 5
\* the account that deploys the three contracts
Deployer == 1

Ids == 0..MaxId
ProofIds == 0..MaxProofId
Hashes == 0..MaxHash

\* ------------------------------------------------------------------------
\* Hashing and ECDSA.  keccak256 is collision free here: a hash is the
\* tuple of what was hashed, with a leading tag for the encoding.
\* ------------------------------------------------------------------------
\* keccak256(abi.encodePacked(id, subject, summaryHash))
CredentialMessageHash(id, subject, summaryHash) == <<1, id, subject, summaryHash>>

\* keccak256(abi.encode(address(this), proofId, issuer, subject,
\*                      keccak256(proof), keccak256(abi.encode(publicInputs))))
ProofMessageHash(verifier, proofId, issuer, subject, proof, publicInputs) ==
    <<2, verifier, proofId, issuer, subject, <<4, proof>>, <<5, publicInputs>>>>

\* keccak256(abi.encodePacked("\x19Ethereum Signed Message:\n32", messageHash))
EthSignedMessageHash(messageHash) == <<3, messageHash>>

\* The y-parity of the curve point of the signature key makes over digest:
\* the v that recovers the key is 27 + parity.
Parity(key, digest) == key % 2

\* bytes values that are signatures: r and s are fixed by the key and the
\* signed digest, v is the raw last byte, len the length of the bytes value
EmptyBytes == [len |-> 0, key |-> 0, digest |-> <<>>, v |-> 0]

\* SigningKey.sign(digest): r, s, v with v = 27 or 28
Sign(key, digest) ==
    [len |-> 65, key |-> key, digest |-> digest, v |-> 27 + Parity(key, digest)]

\* the precompile: the zero address for a v outside {27, 28}, the signing
\* key's address for the signed digest with the right v, and an unrelated
\* address for anything else
ecrecover(hash, v, sig) ==
    IF v \notin {27, 28} THEN ZeroAddr
    ELSE IF sig.key \in Accounts /\ sig.digest = hash /\ v = 27 + Parity(sig.key, sig.digest)
         THEN sig.key
         ELSE StrayAddr

\* ------------------------------------------------------------------------
\* State
\* ------------------------------------------------------------------------
VARIABLES
    \* ProofVerifier
    admin, auditorRegistry, zkVerifier, verified, credentialAnchored,
    proofValidated, projectAuditor, credentials, proofRecords,
    \* AuditorRegistry
    registryAdmin, proofVerifier, auditors, auditorList,
    \* ZKVerifierGroth16
    zkAdmin, trustedProver, groth16Verifier,
    \* block.timestamp
    now,
    \* a caller of the signing module: the arguments it holds, the signature
    \* it holds and the result of its last recovery
    callerArgs, callerSignature, callerRecovered,
    \* the backend: process.env, the ProofRecord and Credential collections
    \* and the POST /verify requests being served
    env, proofStore, credentialDocs, requests

pvVars == <<admin, auditorRegistry, zkVerifier, verified, credentialAnchored,
            proofValidated, projectAuditor, credentials, proofRecords>>
registryVars == <<registryAdmin, proofVerifier, auditors, auditorList>>
zkVars == <<zkAdmin, trustedProver, groth16Verifier>>
chainVars == <<pvVars, registryVars, zkVars, now>>
signerVars == <<callerArgs, callerSignature, callerRecovered>>
backendVars == <<env, proofStore, credentialDocs, requests>>
offVars == <<signerVars, backendVars>>
vars == <<chainVars, offVars>>

\* ------------------------------------------------------------------------
\* Values of the off-chain code.  Its arguments are strings; a JavaScript
\* call returns a value or throws.
\* ------------------------------------------------------------------------
Returned(value) == [error |-> "", value |-> value]
Thrown(message, none) == [error |-> message, value |-> none]

\* An address as a string of 40 hex digits: the address it spells, and
\* whether its letters carry the EIP-55 checksum, are all lower case, are of
\* mixed case that is not the checksum, or the string is empty
AddressForms == {"checksum", "lower", "badchecksum"}
AddressText(value, form) == [value |-> value, form |-> form]
NoAddressText == AddressText(ZeroAddr, "")

\* A bytes32 as a hex string: the number its digits spell, how many bytes
\* they make, and whether the string starts with 0x
HexText(value, bytes, prefixed) == [value |-> value, bytes |-> bytes, prefixed |-> prefixed]

\* A uint256 as a string: the number, written in decimal or in hex
NumberText(value, form) == [value |-> value, form |-> form]

\* The proof as a hex string: the bytes it spells and the case of its digits
ProofText(len, body, form) == [len |-> len, body |-> body, form |-> form]

\* A private key as a string: the key, with or without 0x
KeyText(key, prefixed) == [key |-> key, prefixed |-> prefixed]

\* nothing signed and nothing recovered
SignerIdle ==
    /\ callerSignature = Thrown("not called", EmptyBytes)
    /\ callerRecovered = Thrown("not called", NoAddressText)

\* process.env: the variables the /verify handler reads; an address or a key
\* that is not set is the empty string
NoKey == KeyText(0, FALSE)
Env(zkVerifierAddress, trustedProverAddress, trustedProverKey) ==
    [ZK_VERIFIER_ADDRESS |-> zkVerifierAddress,
     TRUSTED_PROVER_ADDRESS |-> trustedProverAddress,
     TRUSTED_PROVER_PRIVATE_KEY |-> trustedProverKey]

\* the absence of a document in the ProofRecord collection
NoStoredProof == [exists |-> FALSE]

\* the requests (POST /verify or POST /generate) the backend serves at the
\* same time
MaxReq == 2
Requests == 1..MaxReq

\* a request: where its handler stands, the proofId of its body, the
\* document it read, the signer it recovered, whether it sent the
\* transaction, and its response ("" while there is none)
NoRequest ==
    [pc |-> "idle", proofId |-> 0, record |-> NoStoredProof,
     recoveredSigner |-> NoAddressText, sent |-> FALSE, response |-> ""]

\* no configuration, empty collections and no request
BackendIdle ==
    /\ env = Env(NoAddressText, NoAddressText, NoKey)
    /\ proofStore = [p \in ProofIds |-> NoStoredProof]
    /\ credentialDocs = {}
    /\ requests = [r \in Requests |-> NoRequest]

\* the off-chain code at rest
OffchainIdle == callerArgs = <<>> /\ SignerIdle /\ BackendIdle

\* the zero values of the storage structs
NoCredential == [id |-> 0, issuer |-> ZeroAddr, summaryHash |-> 0,
                 timestamp |-> 0, signature |-> EmptyBytes]
NoProofRecord == [project |-> ZeroAddr, auditor |-> ZeroAddr, summaryHash |-> 0,
                  timestamp |-> 0]
\* (AuditorInfo without approvedAt, which no function reads)
NoAuditorInfo == [isApproved |-> FALSE, credentialCount |-> 0,
                  githubHandle |-> "", code4renaHandle |-> "", immunefiHandle |-> "",
                  credibilityScore |-> 0]

\* Storage as the three constructors leave it.  The registry takes no
\* argument; the ZK verifier takes the trusted prover and the Groth16
\* verifier, either of which may be the zero address; the proof verifier
\* takes the registry and the ZK verifier, either of which may be the zero
\* address.
Constructed(registries, verifiers, provers, groth16s) ==
    /\ admin = Deployer
    /\ auditorRegistry \in registries
    /\ zkVerifier \in verifiers
    /\ verified = [a \in Addr |-> FALSE]
    /\ credentialAnchored = [i \in Ids |-> FALSE]
    /\ proofValidated = [p \in ProofIds |-> FALSE]
    /\ projectAuditor = [a \in Addr |-> ZeroAddr]
    /\ credentials = [i \in Ids |-> NoCredential]
    /\ proofRecords = [p \in ProofIds |-> NoProofRecord]
    /\ registryAdmin = Deployer
    /\ zkAdmin = Deployer
    /\ trustedProver \in provers
    /\ groth16Verifier \in groth16s
    /\ now = 1

\* The registry after the deployment scripts have run setProofVerifier and
\* approveAuditor for the accounts of approved, in the order of list
RegistryWired(list) ==
    /\ proofVerifier = PVAddr
    /\ auditors = [a \in Addr |->
                     IF \E i \in 1..Len(list) : list[i] = a
                     THEN [NoAuditorInfo EXCEPT !.isApproved = TRUE]
                     ELSE NoAuditorInfo]
    /\ auditorList = list

\* Deployment as polygon-deploy.js does it: the deployer is the trusted
\* prover, no Groth16 verifier; the proof verifier with or without a registry
\* and with or without a ZK verifier
Init ==
    /\ Constructed({ZeroAddr, RegistryAddr}, {ZeroAddr, ZKAddr}, {Deployer}, {ZeroAddr})
    /\ proofVerifier = ZeroAddr
    /\ auditors = [a \in Addr |-> NoAuditorInfo]
    /\ auditorList = <<>>
    /\ OffchainIdle

\* ------------------------------------------------------------------------
\* AuditorRegistry
\* ------------------------------------------------------------------------
isApprovedAuditor(auditor) == auditors[auditor].isApproved

\* incrementCredentialCount(auditor) sent by sender: the revert reason, ""
\* when the call runs to its end
incrementCredentialCountRevert(sender, auditor) ==
    IF sender # proofVerifier THEN "Only ProofVerifier can increment"
    ELSE IF auditor = ZeroAddr THEN "Invalid auditor address"
    ELSE IF ~auditors[auditor].isApproved THEN "Auditor not approved"
    ELSE ""

setProofVerifierRevert(sender, _proofVerifier) ==
    IF sender # registryAdmin THEN "Only admin can perform this action"
    ELSE IF _proofVerifier = ZeroAddr THEN "Invalid proof verifier address"
    ELSE ""

setProofVerifier(sender, _proofVerifier) ==
    /\ proofVerifier' = IF setProofVerifierRevert(sender, _proofVerifier) = ""
                        THEN _proofVerifier ELSE proofVerifier
    /\ UNCHANGED <<pvVars, zkVars, registryAdmin, auditors, auditorList, now>>

approveAuditorRevert(sender, auditor) ==
    IF sender # registryAdmin THEN "Only admin can perform this action"
    ELSE IF auditor = ZeroAddr THEN "Invalid auditor address"
    ELSE IF auditors[auditor].isApproved THEN "Auditor already approved"
    ELSE ""

\* approveAuditor overwrites the whole AuditorInfo and appends to auditorList
approveAuditor(sender, auditor) ==
    IF approveAuditorRevert(sender, auditor) = ""
    THEN /\ Len(auditorList) < MaxList
         /\ auditors' = [auditors EXCEPT ![auditor] =
                            [NoAuditorInfo EXCEPT !.isApproved = TRUE]]
         /\ auditorList' = Append(auditorList, auditor)
         /\ UNCHANGED <<pvVars, zkVars, registryAdmin, proofVerifier, now>>
    ELSE UNCHANGED chainVars

revokeAuditorRevert(sender, auditor) ==
    IF sender # registryAdmin THEN "Only admin can perform this action"
    ELSE IF ~auditors[auditor].isApproved THEN "Auditor not approved"
    ELSE ""

revokeAuditor(sender, auditor) ==
    /\ auditors' = IF revokeAuditorRevert(sender, auditor) = ""
                   THEN [auditors EXCEPT ![auditor].isApproved = FALSE]
                   ELSE auditors
    /\ UNCHANGED <<pvVars, zkVars, registryAdmin, proofVerifier, auditorList, now>>

\* getApprovedAuditorCount: the loop over auditorList counts the entries
\* whose address is approved
getApprovedAuditorCount ==
    Cardinality({i \in 1..Len(auditorList) : auditors[auditorList[i]].isApproved})

\* ------------------------------------------------------------------------
\* ProofVerifier: credentials
\* ------------------------------------------------------------------------
\* modifier onlyApprovedAuditor
onlyApprovedAuditor(sender) ==
    auditorRegistry = ZeroAddr \/ isApprovedAuditor(sender)

\* the signer issueCredential recovers: r, s and the last byte v are read
\* from the signature, v below 27 is raised by 27, and ecrecover is applied
\* to the personal-sign hash of keccak256(id, subject, summaryHash)
issueCredentialSigner(id, subject, summaryHash, signature) ==
    LET messageHash == CredentialMessageHash(id, subject, summaryHash)
        ethSignedMessageHash == EthSignedMessageHash(messageHash)
        v == IF signature.v < 27 THEN signature.v + 27 ELSE signature.v
    IN ecrecover(ethSignedMessageHash, v, signature)

\* the call the proof verifier makes into the registry after its writes
registryIncrementRevert(auditor) ==
    IF auditorRegistry # ZeroAddr
    THEN incrementCredentialCountRevert(PVAddr, auditor)
    ELSE ""

\* issueCredential taking any recoverable signer for the caller
signerIsAnyone(sender, id, subject, summaryHash, signature) ==
    issueCredentialSigner(id, subject, summaryHash, signature) # ZeroAddr

\* require(signer == msg.sender && signer != address(0), ...)
signerIsSender(sender, id, subject, summaryHash, signature) ==
    /\ issueCredentialSigner(id, subject, summaryHash, signature) = sender
    /\ issueCredentialSigner(id, subject, summaryHash, signature) # ZeroAddr

\* issueCredential without its check of the anchored mark
neverIssued(id) == FALSE

\* require(!credentialAnchored[id], "Credential already issued")
alreadyIssued(id) == credentialAnchored[id]

\* anchorCredential without its check of the anchored mark
neverAnchored(id) == FALSE

\* require(!credentialAnchored[id], "Credential already anchored")
alreadyAnchored(id) == credentialAnchored[id]

issueCredentialRevert(sender, id, subject, summaryHash, signature) ==
    IF ~onlyApprovedAuditor(sender) THEN "Not an approved auditor"
    ELSE IF subject = ZeroAddr THEN "Invalid address"
    ELSE IF alreadyIssued(id) THEN "Credential already issued"
    ELSE IF id = 0 THEN "Invalid credential ID"
    ELSE IF summaryHash = 0 THEN "Invalid summary hash"
    ELSE IF signature.len # 65 THEN "Invalid signature length"
    ELSE IF ~signerIsSender(sender, id, subject, summaryHash, signature)
         THEN "Invalid signature"
    ELSE registryIncrementRevert(sender)

\* a credential write that leaves credentialAnchored[id] as it was
anchoredUnmarked(id, issuer, summaryHash, signature) ==
    [credentials |-> [credentials EXCEPT ![id] =
                         [id |-> id, issuer |-> issuer, summaryHash |-> summaryHash,
                          timestamp |-> now, signature |-> signature]],
     credentialAnchored |-> credentialAnchored,
     auditors |-> IF auditorRegistry # ZeroAddr
                  THEN [auditors EXCEPT ![issuer].credentialCount = @ + 1]
                  ELSE auditors]

\* the storage a credential write leaves: the record, the anchored mark and
\* the registry's count of the issuer
anchored(id, issuer, summaryHash, signature) ==
    [credentials |-> [credentials EXCEPT ![id] =
                         [id |-> id, issuer |-> issuer, summaryHash |-> summaryHash,
                          timestamp |-> now, signature |-> signature]],
     credentialAnchored |-> [credentialAnchored EXCEPT ![id] = TRUE],
     auditors |-> IF auditorRegistry # ZeroAddr
                  THEN [auditors EXCEPT ![issuer].credentialCount = @ + 1]
                  ELSE auditors]

\* a reverted call leaves the storage as it was
notAnchored ==
    [credentials |-> credentials, credentialAnchored |-> credentialAnchored,
     auditors |-> auditors]

\* issueCredential whose own writes survive a rejection by the registry
issueCredentialOutcomePartial(sender, id, subject, summaryHash, signature) ==
    IF issueCredentialRevert(sender, id, subject, summaryHash, signature) = ""
    THEN anchored(id, sender, summaryHash, signature)
    ELSE IF issueCredentialRevert(sender, id, subject, summaryHash, signature)
               = registryIncrementRevert(sender)
    THEN [anchored(id, sender, summaryHash, signature) EXCEPT !.auditors = auditors]
    ELSE notAnchored

issueCredentialOutcome(sender, id, subject, summaryHash, signature) ==
    IF issueCredentialRevert(sender, id, subject, summaryHash, signature) = ""
    THEN anchored(id, sender, summaryHash, signature)
    ELSE notAnchored

issueCredential(sender, id, subject, summaryHash, signature) ==
    LET out == issueCredentialOutcome(sender, id, subject, summaryHash, signature)
    IN /\ credentials' = out.credentials
       /\ credentialAnchored' = out.credentialAnchored
       /\ auditors' = out.auditors
       /\ UNCHANGED <<admin, auditorRegistry, zkVerifier, verified, proofValidated,
                      projectAuditor, proofRecords, registryAdmin, proofVerifier,
                      auditorList, zkVars, now>>

anchorCredentialRevert(sender, id, summaryHash, issuer) ==
    IF issuer = ZeroAddr THEN "Invalid address"
    ELSE IF ~onlyApprovedAuditor(sender) THEN "Not an approved auditor"
    ELSE IF issuer # sender THEN "Can only anchor for yourself"
    ELSE IF alreadyAnchored(id) THEN "Credential already anchored"
    ELSE IF id = 0 THEN "Invalid credential ID"
    ELSE IF summaryHash = 0 THEN "Invalid summary hash"
    ELSE registryIncrementRevert(issuer)

anchorCredentialOutcome(sender, id, summaryHash, issuer) ==
    IF anchorCredentialRevert(sender, id, summaryHash, issuer) = ""
    THEN anchored(id, issuer, summaryHash, EmptyBytes)
    ELSE notAnchored

anchorCredential(sender, id, summaryHash, issuer) ==
    LET out == anchorCredentialOutcome(sender, id, summaryHash, issuer)
    IN /\ credentials' = out.credentials
       /\ credentialAnchored' = out.credentialAnchored
       /\ auditors' = out.auditors
       /\ UNCHANGED <<admin, auditorRegistry, zkVerifier, verified, proofValidated,
                      projectAuditor, proofRecords, registryAdmin, proofVerifier,
                      auditorList, zkVars, now>>

isCredentialAnchored(id) == credentialAnchored[id]

getCredential(id) == credentials[id]

\* ------------------------------------------------------------------------
\* ProofVerifier: administration
\* ------------------------------------------------------------------------
setZKVerifierRevert(sender, _zkVerifier) ==
    IF sender # admin THEN "Only admin can perform this action"
    ELSE IF _zkVerifier = ZeroAddr THEN "Invalid verifier address"
    ELSE ""

setZKVerifier(sender, _zkVerifier) ==
    /\ zkVerifier' = IF setZKVerifierRevert(sender, _zkVerifier) = ""
                     THEN _zkVerifier ELSE zkVerifier
    /\ UNCHANGED <<admin, auditorRegistry, verified, credentialAnchored,
                   proofValidated, projectAuditor, credentials, proofRecords,
                   registryVars, zkVars, now>>

setAuditorRegistryRevert(sender, _auditorRegistry) ==
    IF sender # admin THEN "Only admin can perform this action"
    ELSE IF _auditorRegistry = ZeroAddr THEN "Invalid registry address"
    ELSE ""

setAuditorRegistry(sender, _auditorRegistry) ==
    /\ auditorRegistry' = IF setAuditorRegistryRevert(sender, _auditorRegistry) = ""
                          THEN _auditorRegistry ELSE auditorRegistry
    /\ UNCHANGED <<admin, zkVerifier, verified, credentialAnchored,
                   proofValidated, projectAuditor, credentials, proofRecords,
                   registryVars, zkVars, now>>

transferAdminRevert(sender, newAdmin) ==
    IF sender # admin THEN "Only admin can perform this action"
    ELSE IF newAdmin = ZeroAddr THEN "Invalid admin address"
    ELSE ""

transferAdmin(sender, newAdmin) ==
    /\ admin' = IF transferAdminRevert(sender, newAdmin) = "" THEN newAdmin ELSE admin
    /\ UNCHANGED <<auditorRegistry, zkVerifier, verified, credentialAnchored,
                   proofValidated, projectAuditor, credentials, proofRecords,
                   registryVars, zkVars, now>>

\* ------------------------------------------------------------------------
\* ZKVerifierGroth16
\* ------------------------------------------------------------------------
\* a proof of at least this many bytes is tried as a Groth16 proof
Groth16ProofLen == 256

\* bytes values that are proofs: the length and the content
ProofBytes(len, body) == [len |-> len, body |-> body]

\* _verifyGroth16Proof without its check of the number of public inputs
_verifyGroth16ProofAnyInputs(proofBytes, publicInputs, verifierAnswer) ==
    verifierAnswer

\* _verifyGroth16Proof: false unless there are exactly three public inputs;
\* otherwise the answer of the external pairing verifier, a revert of which
\* is caught and counts as false
_verifyGroth16Proof(proofBytes, publicInputs, verifierAnswer) ==
    IF Len(publicInputs) # 3 THEN FALSE ELSE verifierAnswer

\* _recoverSigner: the recovered address, or the revert reason
_recoverSigner(messageHash, signature) ==
    LET ethSignedMessageHash == EthSignedMessageHash(messageHash)
        v == IF signature.v < 27 THEN signature.v + 27 ELSE signature.v
    IN IF v # 27 /\ v # 28
       THEN [reason |-> "Invalid v value", signer |-> ZeroAddr]
       ELSE [reason |-> "", signer |-> ecrecover(ethSignedMessageHash, v, signature)]

\* verifyProof: the revert reason ("" when it returns), the value returned
\* and the proofType of the ProofVerified event
verifyProof(payload, publicInputs, verifierAnswer) ==
    IF /\ groth16Verifier # ZeroAddr
       /\ payload.proof.len >= Groth16ProofLen
       /\ _verifyGroth16Proof(payload.proof, publicInputs, verifierAnswer)
    THEN [reason |-> "", result |-> TRUE, proofType |-> "Groth16"]
    ELSE IF trustedProver = ZeroAddr
    THEN [reason |-> "Prover not configured", result |-> FALSE, proofType |-> ""]
    ELSE IF payload.signature.len # 65
    THEN [reason |-> "Invalid signature length", result |-> FALSE, proofType |-> ""]
    ELSE LET messageHash == ProofMessageHash(ZKAddr, payload.proofId, payload.issuer,
                                             payload.subject, payload.proof, publicInputs)
             rec == _recoverSigner(messageHash, payload.signature)
         IN IF rec.reason # ""
            THEN [reason |-> rec.reason, result |-> FALSE, proofType |-> ""]
            ELSE IF rec.signer # trustedProver
            THEN [reason |-> "Invalid proof signature", result |-> FALSE, proofType |-> ""]
            ELSE [reason |-> "", result |-> TRUE, proofType |-> "Signature"]

setTrustedProverRevert(sender, _trustedProver) ==
    IF sender # zkAdmin THEN "Not authorized"
    ELSE IF _trustedProver = ZeroAddr THEN "Invalid prover"
    ELSE ""

setTrustedProver(sender, _trustedProver) ==
    /\ trustedProver' = IF setTrustedProverRevert(sender, _trustedProver) = ""
                        THEN _trustedProver ELSE trustedProver
    /\ UNCHANGED <<pvVars, registryVars, zkAdmin, groth16Verifier, now>>

setGroth16VerifierRevert(sender, _groth16Verifier) ==
    IF sender # zkAdmin THEN "Not authorized"
    ELSE IF _groth16Verifier = ZeroAddr THEN "Invalid verifier"
    ELSE ""

setGroth16Verifier(sender, _groth16Verifier) ==
    /\ groth16Verifier' = IF setGroth16VerifierRevert(sender, _groth16Verifier) = ""
                          THEN _groth16Verifier ELSE groth16Verifier
    /\ UNCHANGED <<pvVars, registryVars, zkAdmin, trustedProver, now>>

\* transferAdmin of ZKVerifierGroth16
zkTransferAdminRevert(sender, newAdmin) ==
    IF sender # zkAdmin THEN "Not authorized"
    ELSE IF newAdmin = ZeroAddr THEN "Invalid admin"
    ELSE ""

zkTransferAdmin(sender, newAdmin) ==
    /\ zkAdmin' = IF zkTransferAdminRevert(sender, newAdmin) = ""
                  THEN newAdmin ELSE zkAdmin
    /\ UNCHANGED <<pvVars, registryVars, trustedProver, groth16Verifier, now>>

\* verifyProof called by any account directly: it writes no storage, whether
\* it returns or reverts
verifyProofCall(payload, publicInputs, verifierAnswer) ==
    /\ verifyProof(payload, publicInputs, verifierAnswer).reason \in STRING
    /\ UNCHANGED chainVars

\* ------------------------------------------------------------------------
\* ProofVerifier: recordVerification
\* ------------------------------------------------------------------------
\* The arguments of a call are a record c with the fields project, auditor,
\* status, credentialId, proofId, proof, publicInputs, proofSignature and,
\* for what the external Groth16 verifier would answer, verifierAnswer.
ProofPayload(c) ==
    [proofId |-> c.proofId, issuer |-> c.auditor, subject |-> c.project,
     proof |-> c.proof, signature |-> c.proofSignature]

\* the call into the verification backend and the require on its answer
backendRevert(c) ==
    LET res == verifyProof(ProofPayload(c), c.publicInputs, c.verifierAnswer)
    IN IF res.reason # "" THEN res.reason
       ELSE IF ~res.result THEN "Proof verification failed"
       ELSE ""

\* recordVerification without its check of the verifier's address
verifierNeverUnset == FALSE

\* require(address(zkVerifier) != address(0), "Verifier not configured")
verifierUnset == zkVerifier = ZeroAddr

\* recordVerification without its check of the validated mark
proofNeverUsed(proofId) == FALSE

\* require(!proofValidated[proofId], "Proof already used")
proofUsed(proofId) == proofValidated[proofId]

\* recordVerification without its comparison of publicInputs[0]
projectInputAny(c) == TRUE

\* require(publicInputs[0] == uint256(uint160(project)), "Project mismatch")
projectInputMatches(c) == c.publicInputs[1] = c.project

\* require(publicInputs[1] == uint256(uint160(auditor)), ...)
auditorInputMatches(c) == c.publicInputs[2] = c.auditor

\* recordVerification without its comparison of publicInputs[2]
summaryHashInputAny(c) == TRUE

\* require(publicInputs[2] == uint256(credential.summaryHash), ...)
summaryHashInputMatches(c) ==
    c.publicInputs[3] = credentials[c.credentialId].summaryHash

\* recordVerification looking at the validated mark before anything else
recordVerificationRevertReordered(c) ==
    IF proofUsed(c.proofId) THEN "Proof already used"
    ELSE IF c.project = ZeroAddr THEN "Invalid address"
    ELSE IF c.auditor = ZeroAddr THEN "Invalid address"
    ELSE IF c.status = "" THEN "Status cannot be empty"
    ELSE IF verifierUnset THEN "Verifier not configured"
    ELSE IF ~(Len(c.publicInputs) >= 3) THEN "Invalid proof inputs"
    ELSE IF c.credentialId = 0 THEN "Invalid credential id"
    ELSE IF ~credentialAnchored[c.credentialId] THEN "Credential not anchored"
    ELSE IF credentials[c.credentialId].issuer # c.auditor THEN "Auditor mismatch"
    ELSE IF ~projectInputMatches(c) THEN "Project mismatch"
    ELSE IF ~auditorInputMatches(c) THEN "Auditor input mismatch"
    ELSE IF ~summaryHashInputMatches(c) THEN "Summary hash mismatch"
    ELSE backendRevert(c)

recordVerificationRevert(c) ==
    IF c.project = ZeroAddr THEN "Invalid address"
    ELSE IF c.auditor = ZeroAddr THEN "Invalid address"
    ELSE IF c.status = "" THEN "Status cannot be empty"
    ELSE IF verifierUnset THEN "Verifier not configured"
    ELSE IF proofUsed(c.proofId) THEN "Proof already used"
    ELSE IF ~(Len(c.publicInputs) >= 3) THEN "Invalid proof inputs"
    ELSE IF c.credentialId = 0 THEN "Invalid credential id"
    ELSE IF ~credentialAnchored[c.credentialId] THEN "Credential not anchored"
    ELSE IF credentials[c.credentialId].issuer # c.auditor THEN "Auditor mismatch"
    ELSE IF ~projectInputMatches(c) THEN "Project mismatch"
    ELSE IF ~auditorInputMatches(c) THEN "Auditor input mismatch"
    ELSE IF ~summaryHashInputMatches(c) THEN "Summary hash mismatch"
    ELSE backendRevert(c)

\* recordVerification that forgets verified[project]
recordedUnverified(c) ==
    [proofValidated |-> [proofValidated EXCEPT ![c.proofId] = TRUE],
     proofRecords |-> [proofRecords EXCEPT ![c.proofId] =
                          [project |-> c.project, auditor |-> c.auditor,
                           summaryHash |-> credentials[c.credentialId].summaryHash,
                           timestamp |-> now]],
     verified |-> verified,
     projectAuditor |-> [projectAuditor EXCEPT ![c.project] = c.auditor],
     events |-> << [name |-> "ProofVerified", src |-> ZKAddr, project |-> c.project,
                    auditor |-> c.auditor,
                    proofType |-> verifyProof(ProofPayload(c), c.publicInputs,
                                              c.verifierAnswer).proofType],
                   [name |-> "ProofValidated", src |-> PVAddr, project |-> c.project,
                    auditor |-> c.auditor, proofType |-> ""],
                   [name |-> "AuditVerified", src |-> PVAddr, project |-> c.project,
                    auditor |-> c.auditor, proofType |-> ""] >>]

\* recordVerification that writes no proofRecords entry
recordedNoRecord(c) ==
    [proofValidated |-> [proofValidated EXCEPT ![c.proofId] = TRUE],
     proofRecords |-> proofRecords,
     verified |-> [verified EXCEPT ![c.project] = TRUE],
     projectAuditor |-> [projectAuditor EXCEPT ![c.project] = c.auditor],
     events |-> <<>>]

\* recordVerification that keeps only the latest project verified
recordedLatestOnly(c) ==
    [proofValidated |-> [proofValidated EXCEPT ![c.proofId] = TRUE],
     proofRecords |-> [proofRecords EXCEPT ![c.proofId] =
                          [project |-> c.project, auditor |-> c.auditor,
                           summaryHash |-> credentials[c.credentialId].summaryHash,
                           timestamp |-> now]],
     verified |-> [a \in Addr |-> a = c.project],
     projectAuditor |-> [projectAuditor EXCEPT ![c.project] = c.auditor],
     events |-> <<>>]

\* the storage and the events a call that runs to its end leaves
recorded(c) ==
    [proofValidated |-> [proofValidated EXCEPT ![c.proofId] = TRUE],
     proofRecords |-> [proofRecords EXCEPT ![c.proofId] =
                          [project |-> c.project, auditor |-> c.auditor,
                           summaryHash |-> credentials[c.credentialId].summaryHash,
                           timestamp |-> now]],
     verified |-> [verified EXCEPT ![c.project] = TRUE],
     projectAuditor |-> [projectAuditor EXCEPT ![c.project] = c.auditor],
     events |-> << [name |-> "ProofVerified", src |-> ZKAddr, project |-> c.project,
                    auditor |-> c.auditor,
                    proofType |-> verifyProof(ProofPayload(c), c.publicInputs,
                                              c.verifierAnswer).proofType],
                   [name |-> "ProofValidated", src |-> PVAddr, project |-> c.project,
                    auditor |-> c.auditor, proofType |-> ""],
                   [name |-> "AuditVerified", src |-> PVAddr, project |-> c.project,
                    auditor |-> c.auditor, proofType |-> ""] >>]

\* a reverted call leaves the storage as it was and no event
notRecorded ==
    [proofValidated |-> proofValidated, proofRecords |-> proofRecords,
     verified |-> verified, projectAuditor |-> projectAuditor, events |-> <<>>]

\* recordVerification whose writes survive a rejection by the backend
recordVerificationOutcomeKept(c) ==
    IF recordVerificationRevert(c) \in {"", backendRevert(c)}
    THEN recorded(c) ELSE notRecorded

recordVerificationOutcome(c) ==
    IF recordVerificationRevert(c) = "" THEN recorded(c) ELSE notRecorded

recordVerification(c) ==
    LET out == recordVerificationOutcome(c)
    IN /\ proofValidated' = out.proofValidated
       /\ proofRecords' = out.proofRecords
       /\ verified' = out.verified
       /\ projectAuditor' = out.projectAuditor
       /\ UNCHANGED <<admin, auditorRegistry, zkVerifier, credentialAnchored,
                      credentials, registryVars, zkVars, now>>

\* ------------------------------------------------------------------------
\* Time: a later block
\* ------------------------------------------------------------------------
Tick ==
    /\ now < MaxTime
    /\ now' = now + 1
    /\ UNCHANGED <<pvVars, registryVars, zkVars, offVars>>

\* ------------------------------------------------------------------------
\* The transactions the environment sends
\* ------------------------------------------------------------------------
\* the values a uint256 public input takes: every address and every hash
PublicValues == Addr \cup Hashes

\* a proof too short for the Groth16 path, and one long enough
ShortProof == ProofBytes(32, 0)

\* the signature issue-credential.js makes for issueCredential
CredentialSignature(key, id, subject, summaryHash) ==
    Sign(key, EthSignedMessageHash(CredentialMessageHash(id, subject, summaryHash)))

\* the signature the trusted prover's key makes over a proof payload
ProofSignature(key, proofId, issuer, subject, proof, publicInputs) ==
    Sign(key, EthSignedMessageHash(
                  ProofMessageHash(ZKAddr, proofId, issuer, subject, proof, publicInputs)))

\* signatures offered to issueCredential(id, subject, summaryHash) by sender:
\* the one issue-credential.js makes, the same with v given as 0/1, with the
\* other v, with a v that is no recovery id, cut short, made by another key,
\* made over another id, subject or summary hash, and made over the message
\* hash without the personal-sign prefix
CredentialSignatures(sender, id, subject, summaryHash) ==
    LET good == CredentialSignature(sender, id, subject, summaryHash)
    IN {good, [good EXCEPT !.v = @ - 27], [good EXCEPT !.v = 55 - @],
        [good EXCEPT !.v = 29], [good EXCEPT !.len = 64]}
       \cup {CredentialSignature(k, id, subject, summaryHash) : k \in Accounts}
       \cup {CredentialSignature(sender, i, subject, summaryHash) : i \in Ids}
       \cup {CredentialSignature(sender, id, s, summaryHash) : s \in Accounts}
       \cup {CredentialSignature(sender, id, subject, h) : h \in PublicValues}
       \cup {Sign(sender, CredentialMessageHash(id, subject, summaryHash))}

\* issueCredential calls with the signature the script makes for them
IssueCalls ==
    {[sender |-> sender, id |-> id, subject |-> subject, summaryHash |-> summaryHash,
      signature |-> CredentialSignature(sender, id, subject, summaryHash)]
       : sender \in Accounts, id \in Ids, subject \in Accounts, summaryHash \in Hashes}

\* issueCredential calls with any subject and any signature of
\* CredentialSignatures
AnyIssueCalls ==
    UNION {{[sender |-> sender, id |-> id, subject |-> subject,
             summaryHash |-> summaryHash, signature |-> signature]
            : signature \in CredentialSignatures(sender, id, subject, summaryHash)}
           : sender \in Accounts, id \in Ids, subject \in Addr, summaryHash \in Hashes}

\* anchorCredential calls
AnchorCalls ==
    [sender : Accounts, id : Ids, summaryHash : Hashes, issuer : Addr]

\* the recordVerification call with a short proof and the signature key
\* makes over exactly its payload and public inputs
RecordCall(project, auditor, status, credentialId, proofId, publicInputs, key) ==
    [project |-> project, auditor |-> auditor, status |-> status,
     credentialId |-> credentialId, proofId |-> proofId, proof |-> ShortProof,
     publicInputs |-> publicInputs,
     proofSignature |-> ProofSignature(key, proofId, auditor, project, ShortProof,
                                       publicInputs),
     verifierAnswer |-> FALSE]

\* well-formed calls: any project, a non-zero auditor, a status, the project
\* and the auditor as the first two public inputs, any non-zero value as the
\* third, signed by any key
RecordCalls ==
    {RecordCall(p, a, "verified", ci, pi, <<p, a, h>>, k)
       : p \in Addr, a \in Accounts, ci \in Ids, pi \in ProofIds,
         h \in PublicValues \ {0}, k \in Accounts}

\* public inputs offered by any caller: every triple of non-zero values, one
\* pair, and the triples followed by a fourth element
PublicInputs3 == [1..3 -> PublicValues \ {0}]
PublicInputsSet == PublicInputs3 \cup {<<1, 1>>} \cup {Append(q, 0) : q \in PublicInputs3}

\* any call: every combination of the arguments, the signature made by any
\* key over the call's own payload, or that of key 1 with a v that is no
\* recovery id, or cut short
AnyRecordCalls ==
    UNION {{c, [c EXCEPT !.proofSignature.v = 29], [c EXCEPT !.proofSignature.len = 64]}
           : c \in {RecordCall(p, a, st, ci, pi, inp, 1)
                      : p \in Addr, a \in Addr, st \in {"", "verified"}, ci \in Ids,
                        pi \in ProofIds, inp \in PublicInputsSet}}
    \cup {RecordCall(p, a, st, ci, pi, inp, k)
            : p \in Addr, a \in Addr, st \in {"", "verified"}, ci \in Ids,
              pi \in ProofIds, inp \in PublicInputsSet, k \in Accounts \ {1}}

\* the recordVerification call with the given proof, the signature key makes
\* over exactly its payload and public inputs, and the answer the external
\* Groth16 verifier would give for the proof
ProofCall(project, auditor, credentialId, proofId, proof, publicInputs, key, answer) ==
    [project |-> project, auditor |-> auditor, status |-> "verified",
     credentialId |-> credentialId, proofId |-> proofId, proof |-> proof,
     publicInputs |-> publicInputs,
     proofSignature |-> ProofSignature(key, proofId, auditor, project, proof,
                                       publicInputs),
     verifierAnswer |-> answer]

\* calls for any project, with a short or a long proof, three or four public
\* inputs, any answer of the Groth16 verifier, signed by any key or carrying
\* no signature
ProofCalls ==
    UNION {{c, [c EXCEPT !.proofSignature = EmptyBytes]}
           : c \in UNION {{ProofCall(p, a, ci, pi, proof, <<p, a, 1>>, k, answer),
                           ProofCall(p, a, ci, pi, proof, <<p, a, 1, 0>>, k, answer)}
                          : p \in Addr, a \in Accounts, ci \in Ids, pi \in ProofIds,
                            proof \in {ShortProof, ProofBytes(Groth16ProofLen, 0)}, k \in Accounts,
                            answer \in BOOLEAN}}

\* direct calls of verifyProof: the payloads and public inputs of ProofCalls
VerifyCalls ==
    {[payload |-> [proofId |-> c.proofId, issuer |-> c.auditor, subject |-> c.project,
                   proof |-> c.proof, signature |-> c.proofSignature],
      publicInputs |-> c.publicInputs, verifierAnswer |-> c.verifierAnswer]
       : c \in ProofCalls}

IssueCredential ==
    /\ \E c \in IssueCalls :
           issueCredential(c.sender, c.id, c.subject, c.summaryHash, c.signature)
    /\ UNCHANGED offVars

IssueCredentialAny ==
    /\ \E c \in AnyIssueCalls :
           issueCredential(c.sender, c.id, c.subject, c.summaryHash, c.signature)
    /\ UNCHANGED offVars

AnchorCredential ==
    /\ \E c \in AnchorCalls : anchorCredential(c.sender, c.id, c.summaryHash, c.issuer)
    /\ UNCHANGED offVars

\* isCredentialAnchored and getCredential called by any account: view
\* functions, which write no storage
CredentialLookup ==
    /\ \E id \in Ids : isCredentialAnchored(id) \in BOOLEAN /\ getCredential(id).id \in Ids
    /\ UNCHANGED vars

RecordVerification ==
    /\ \E c \in RecordCalls : recordVerification(c)
    /\ UNCHANGED offVars

RecordVerificationAny ==
    /\ \E c \in AnyRecordCalls : recordVerification(c)
    /\ UNCHANGED offVars

SetZKVerifier ==
    /\ \E sender \in Accounts, a \in {ZeroAddr, ZKAddr} : setZKVerifier(sender, a)
    /\ UNCHANGED offVars

SetAuditorRegistry ==
    /\ \E sender \in Accounts, a \in {ZeroAddr, RegistryAddr} : setAuditorRegistry(sender, a)
    /\ UNCHANGED offVars

TransferAdmin ==
    /\ \E sender \in Accounts, a \in Addr : transferAdmin(sender, a)
    /\ UNCHANGED offVars

SetProofVerifier ==
    /\ \E sender \in Accounts, a \in {ZeroAddr, PVAddr} : setProofVerifier(sender, a)
    /\ UNCHANGED offVars

ApproveAuditor ==
    /\ \E sender \in Accounts, a \in Addr : approveAuditor(sender, a)
    /\ UNCHANGED offVars

RevokeAuditor ==
    /\ \E sender \in Accounts, a \in Addr : revokeAuditor(sender, a)
    /\ UNCHANGED offVars

SetTrustedProver ==
    /\ \E sender \in Accounts, a \in Addr : setTrustedProver(sender, a)
    /\ UNCHANGED offVars

SetGroth16Verifier ==
    /\ \E sender \in Accounts, a \in {ZeroAddr, Groth16Addr} : setGroth16Verifier(sender, a)
    /\ UNCHANGED offVars

ZKTransferAdmin ==
    /\ \E sender \in Accounts, a \in Addr : zkTransferAdmin(sender, a)
    /\ UNCHANGED offVars

RecordVerificationProof ==
    /\ \E c \in ProofCalls : recordVerification(c)
    /\ UNCHANGED offVars

VerifyProof ==
    /\ \E c \in VerifyCalls : verifyProofCall(c.payload, c.publicInputs, c.verifierAnswer)
    /\ UNCHANGED offVars

\* ------------------------------------------------------------------------
\* Spec: every function of ProofVerifier and the registry's approvals, with
\* well-formed calls
\* ------------------------------------------------------------------------
Next ==
    \/ IssueCredential
    \/ AnchorCredential
    \/ CredentialLookup
    \/ RecordVerification
    \/ SetZKVerifier
    \/ SetAuditorRegistry
    \/ TransferAdmin
    \/ SetProofVerifier
    \/ ApproveAuditor
    \/ RevokeAuditor
    \/ Tick

Spec == Init /\ [][Next]_vars

\* ------------------------------------------------------------------------
\* SpecVerify: recordVerification with any arguments, on a deployment with
\* the registry wired and both accounts approved, with or without a ZK
\* verifier and with any trusted prover
\* ------------------------------------------------------------------------
InitVerify ==
    /\ Constructed({RegistryAddr}, {ZeroAddr, ZKAddr}, Addr, {ZeroAddr})
    /\ RegistryWired([i \in 1..MaxAddr |-> i])
    /\ OffchainIdle

NextVerify ==
    \/ IssueCredential
    \/ AnchorCredential
    \/ RecordVerificationAny
    \/ SetTrustedProver
    \/ Tick

SpecVerify == InitVerify /\ [][NextVerify]_vars

\* ------------------------------------------------------------------------
\* SpecIssue: issueCredential with any arguments and any signature, under
\* every state of the registry
\* ------------------------------------------------------------------------
NextIssue ==
    \/ IssueCredentialAny
    \/ SetProofVerifier
    \/ ApproveAuditor
    \/ RevokeAuditor
    \/ Tick

SpecIssue == Init /\ [][NextIssue]_vars

\* ------------------------------------------------------------------------
\* SpecZK: the ZK verifier with or without a Groth16 verifier and a trusted
\* prover, its administration, and recordVerification with short and long
\* proofs on a deployment with the registry wired
\* ------------------------------------------------------------------------
InitZK ==
    /\ Constructed({RegistryAddr}, {ZeroAddr, ZKAddr}, Addr, {ZeroAddr, Groth16Addr})
    /\ RegistryWired([i \in 1..MaxAddr |-> i])
    /\ OffchainIdle

NextZK ==
    \/ AnchorCredential
    \/ RecordVerificationProof
    \/ VerifyProof
    \/ SetZKVerifier
    \/ SetTrustedProver
    \/ SetGroth16Verifier
    \/ ZKTransferAdmin
    \/ Tick

SpecZK == InitZK /\ [][NextZK]_vars

\* ------------------------------------------------------------------------
\* The signing module (utils/signProofPayload.js) and what it uses of
\* ethers.  Its arguments are strings; a call returns a value or throws.
\* ------------------------------------------------------------------------
\* ethers.getAddress: the checksummed spelling; throws on a mixed-case
\* string with a wrong checksum and on anything that is no address
getAddress(text) ==
    IF text.form \in {"checksum", "lower"}
    THEN Returned(AddressText(text.value, "checksum"))
    ELSE Thrown("bad address checksum", NoAddressText)

\* String.prototype.toLowerCase on an address string
toLowerCase(text) ==
    IF text.form \in AddressForms THEN AddressText(text.value, "lower") ELSE text

\* ethers.zeroPadValue(data, length): zero bytes added on the left; throws
\* when the data is longer than length
zeroPadValue(data, length) ==
    IF data.bytes > length
    THEN Thrown("padding exceeds data length", data)
    ELSE Returned([data EXCEPT !.bytes = length])

\* proofId.startsWith("0x") ? zeroPadValue(proofId, 32)
\*                          : zeroPadValue(`0x${proofId}`, 32)
proofIdBytes32(proofId) ==
    IF proofId.prefixed THEN zeroPadValue(proofId, 32)
    ELSE zeroPadValue([proofId EXCEPT !.prefixed = TRUE], 32)

\* BigInt(p) for a decimal or a 0x string
BigInt(p) == p.value

\* a hash of the proof that looks at its length only
getBytesLengthOnly(proofBytesHex) == ProofBytes(proofBytesHex.len, 0)

\* ethers.getBytes on the proof string
getBytes(proofBytesHex) == ProofBytes(proofBytesHex.len, proofBytesHex.body)

\* new ethers.Wallet(privateKey).address, privateKey with 0x put in front
\* when it is missing
walletAddress(trustedProverPrivateKey) ==
    AddressText(trustedProverPrivateKey.key, "checksum")

\* signMessage signing the message itself, without the EIP-191 prefix
hashMessageUnprefixed(message) == message

\* ethers.hashMessage of a 32-byte message, which Wallet.signMessage signs:
\* keccak256("\x19Ethereum Signed Message:\n" + "32" + message)
hashMessage(message) == <<3, message>>

\* signProofPayload up to its messageHash: the digest, or what was thrown
signMessageHash(a) ==
    LET zkVerifierAddr == getAddress(a.zkVerifierAddress)
        issuerAddr == getAddress(a.issuer)
        subjectAddr == getAddress(a.subject)
        proofId32 == proofIdBytes32(a.proofId)
        proofHash == <<4, getBytes(a.proofBytesHex)>>
        publicInputsBigInt == [i \in 1..Len(a.publicInputs) |-> BigInt(a.publicInputs[i])]
        inputsHash == <<5, publicInputsBigInt>>
    IN IF zkVerifierAddr.error # "" THEN Thrown(zkVerifierAddr.error, <<>>)
       ELSE IF issuerAddr.error # "" THEN Thrown(issuerAddr.error, <<>>)
       ELSE IF subjectAddr.error # "" THEN Thrown(subjectAddr.error, <<>>)
       ELSE IF proofId32.error # "" THEN Thrown(proofId32.error, <<>>)
       ELSE Returned(<<2, zkVerifierAddr.value.value, proofId32.value.value,
                       issuerAddr.value.value, subjectAddr.value.value,
                       proofHash, inputsHash>>)

\* signProofPayload: the 65-byte signature, or what was thrown
signProofPayload(a) ==
    LET messageHash == signMessageHash(a)
        sig == Sign(a.trustedProverPrivateKey.key, hashMessage(messageHash.value))
    IN IF messageHash.error # "" THEN Thrown(messageHash.error, EmptyBytes)
       ELSE IF sig.len # 65 THEN Thrown("Invalid signature byte length", EmptyBytes)
       ELSE IF sig.v # 27 /\ sig.v # 28 THEN Thrown("Invalid v value", EmptyBytes)
       ELSE Returned(sig)

\* ethers' Signature.from on the last byte of a 65-byte signature: 27 and 28
\* as they are, 0 and 1 with 27 added, an EIP-155 v (35 and above) by its
\* parity; 0 stands for the throw on any other byte
getNormalizedV(v) ==
    IF v \in {0, 27} THEN 27
    ELSE IF v \in {1, 28} THEN 28
    ELSE IF v >= 35 THEN (IF v % 2 = 1 THEN 27 ELSE 28)
    ELSE 0

\* ethers.recoverAddress(digest, signature): a 65-byte signature by its
\* normalized v, a 64-byte one as the compact form whose parity bit is the
\* top bit of s (clear for the s a signer produces); throws on any other
\* length and on a v that does not normalize
recoverAddress(digest, sig) ==
    IF sig.len = 64
    THEN Returned(AddressText(ecrecover(digest, 27, sig), "checksum"))
    ELSE IF sig.len # 65
    THEN Thrown("invalid raw signature length", NoAddressText)
    ELSE IF getNormalizedV(sig.v) = 0
    THEN Thrown("invalid v", NoAddressText)
    ELSE Returned(AddressText(ecrecover(digest, getNormalizedV(sig.v), sig), "checksum"))

\* recoverSignerFromSignature up to its messageHash
recoverMessageHash(a) ==
    LET zkVerifierAddr == getAddress(a.zkVerifierAddress)
        issuerAddr == getAddress(a.issuer)
        subjectAddr == getAddress(a.subject)
        proofId32 == proofIdBytes32(a.proofId)
        proofHash == <<4, getBytes(a.proofBytesHex)>>
        publicInputsBigInt == [i \in 1..Len(a.publicInputs) |-> BigInt(a.publicInputs[i])]
        inputsHash == <<5, publicInputsBigInt>>
    IN IF zkVerifierAddr.error # "" THEN Thrown(zkVerifierAddr.error, <<>>)
       ELSE IF issuerAddr.error # "" THEN Thrown(issuerAddr.error, <<>>)
       ELSE IF subjectAddr.error # "" THEN Thrown(subjectAddr.error, <<>>)
       ELSE IF proofId32.error # "" THEN Thrown(proofId32.error, <<>>)
       ELSE Returned(<<2, zkVerifierAddr.value.value, proofId32.value.value,
                       issuerAddr.value.value, subjectAddr.value.value,
                       proofHash, inputsHash>>)

\* recoverSignerFromSignature: the checksummed address of the signer, or
\* what was thrown
recoverSignerFromSignature(a, sig) ==
    LET messageHash == recoverMessageHash(a)
        ethSignedMessageHash == <<3, messageHash.value>>
        recoveredAddress == recoverAddress(ethSignedMessageHash, sig)
    IN IF messageHash.error # "" THEN Thrown(messageHash.error, NoAddressText)
       ELSE IF recoveredAddress.error # "" THEN recoveredAddress
       ELSE getAddress(recoveredAddress.value)

\* buildProofDigest with the subject encoded before the issuer
buildProofDigestSwapped(ZK_VERIFIER_ADDRESS, proofId, issuer, subject, proofHex, publicInputs) ==
    IF \/ ZK_VERIFIER_ADDRESS.form = ""
       \/ getAddress(issuer).error # ""
       \/ getAddress(subject).error # ""
       \/ getAddress(toLowerCase(ZK_VERIFIER_ADDRESS)).error # ""
       \/ ~proofId.prefixed \/ proofId.bytes # 32
    THEN Thrown("thrown", <<>>)
    ELSE Returned(<<2, ZK_VERIFIER_ADDRESS.value, proofId.value, subject.value, issuer.value,
                    <<4, getBytes(proofHex)>>,
                    <<5, [i \in 1..Len(publicInputs) |-> publicInputs[i].value]>>>>)

\* buildProofDigest of server.js, for the ZK_VERIFIER_ADDRESS of the
\* environment trimmed and put in lower case: the digest, or what was thrown.
\* The ABI coder takes a bytes32 only as a 0x string of exactly 32 bytes and
\* a uint256 as a decimal or a 0x string.
buildProofDigest(ZK_VERIFIER_ADDRESS, proofId, issuer, subject, proofHex, publicInputs) ==
    LET normalizedIssuer == getAddress(issuer)
        normalizedSubject == getAddress(subject)
        verifier == getAddress(toLowerCase(ZK_VERIFIER_ADDRESS))
        proofHash == <<4, getBytes(proofHex)>>
        inputsHash == <<5, [i \in 1..Len(publicInputs) |-> publicInputs[i].value]>>
    IN IF ZK_VERIFIER_ADDRESS.form = ""
       THEN Thrown("ZK_VERIFIER_ADDRESS not configured", <<>>)
       ELSE IF normalizedIssuer.error # "" THEN Thrown(normalizedIssuer.error, <<>>)
       ELSE IF normalizedSubject.error # "" THEN Thrown(normalizedSubject.error, <<>>)
       ELSE IF verifier.error # "" THEN Thrown(verifier.error, <<>>)
       ELSE IF ~proofId.prefixed \/ proofId.bytes # 32
       THEN Thrown("invalid BytesLike value", <<>>)
       ELSE Returned(<<2, verifier.value.value, proofId.value,
                       normalizedIssuer.value.value, normalizedSubject.value.value,
                       proofHash, inputsHash>>)

\* ------------------------------------------------------------------------
\* A caller of the signing module: it holds arguments, has them signed, may
\* change one byte of the proof, one public input or the signature, and has
\* the signer recovered; the ZK verifier is asked about the same payload
\* ------------------------------------------------------------------------
\* the strings the caller may hold: the address of the ZK verifier in every
\* spelling or that of another contract, a proof id of 32 bytes with or
\* without 0x, of one byte and of 33 bytes, an issuer and a subject in every
\* spelling, a proof in either case, three public inputs in decimal or in
\* hex, a key with or without 0x
SignerArgs ==
    [trustedProverPrivateKey : {KeyText(k, x) : k \in Accounts, x \in BOOLEAN},
     zkVerifierAddress : {AddressText(ZKAddr, f) : f \in AddressForms}
                         \cup {AddressText(PVAddr, "checksum")},
     proofId : {HexText(p, 32, x) : p \in ProofIds, x \in BOOLEAN}
               \cup {HexText(MaxProofId, b, TRUE) : b \in {1, 33}},
     issuer : {AddressText(v, f) : v \in Accounts, f \in AddressForms},
     subject : {AddressText(v, f) : v \in Accounts, f \in AddressForms},
     proofBytesHex : {ProofText(32, 0, f) : f \in {"lower", "upper"}},
     publicInputs : {<<NumberText(1, f), NumberText(2, f), NumberText(h, f)>>
                       : h \in Hashes, f \in {"dec", "hex"}}]

\* the signature the caller holds is the one signProofPayload returns for
\* the arguments it holds
Untampered == callerSignature.error = "" /\ callerSignature = signProofPayload(callerArgs)

\* the arguments the /verify handler makes of the same strings for
\* recordVerification, and ProofVerifier for verifyProof
VerifyCall(a, sig) ==
    [payload |-> [proofId |-> proofIdBytes32(a.proofId).value.value,
                  issuer |-> getAddress(a.issuer).value.value,
                  subject |-> getAddress(a.subject).value.value,
                  proof |-> getBytes(a.proofBytesHex), signature |-> sig],
     publicInputs |-> [i \in 1..Len(a.publicInputs) |-> BigInt(a.publicInputs[i])],
     verifierAnswer |-> FALSE]

SignProofPayload ==
    /\ callerSignature.error = "not called"
    /\ callerSignature' = signProofPayload(callerArgs)
    /\ UNCHANGED <<chainVars, backendVars, callerArgs, callerRecovered>>

TamperProof ==
    /\ Untampered
    /\ callerRecovered.error = "not called"
    /\ \E body \in {0, 1} \ {callerArgs.proofBytesHex.body} :
           callerArgs' = [callerArgs EXCEPT !.proofBytesHex.body = body]
    /\ UNCHANGED <<chainVars, backendVars, callerSignature, callerRecovered>>

TamperInput ==
    /\ Untampered
    /\ callerRecovered.error = "not called"
    /\ \E i \in 1..Len(callerArgs.publicInputs) :
           \E v \in PublicValues \ {callerArgs.publicInputs[i].value} :
               callerArgs' = [callerArgs EXCEPT !.publicInputs[i].value = v]
    /\ UNCHANGED <<chainVars, backendVars, callerSignature, callerRecovered>>

\* what becomes of a signature r, s, v on its way: v given as 0 or 1, the
\* other v, a v that is no recovery id, the EIP-155 v of the same parity,
\* the last byte cut off, a byte added, and the signature of another key
AlterSignature ==
    /\ Untampered
    /\ callerRecovered.error = "not called"
    /\ LET good == callerSignature.value
       IN \E sig \in {[good EXCEPT !.v = @ - 27], [good EXCEPT !.v = 55 - @],
                       [good EXCEPT !.v = 29], [good EXCEPT !.v = @ + 8],
                       [good EXCEPT !.len = 64], [good EXCEPT !.len = 66]}
                      \cup {Sign(k, good.digest) : k \in Accounts \ {good.key}} :
              callerSignature' = Returned(sig)
    /\ UNCHANGED <<chainVars, backendVars, callerArgs, callerRecovered>>

RecoverSigner ==
    /\ callerSignature.error = ""
    /\ callerRecovered.error = "not called"
    /\ callerRecovered' = recoverSignerFromSignature(callerArgs, callerSignature.value)
    /\ UNCHANGED <<chainVars, backendVars, callerArgs, callerSignature>>

VerifySigned ==
    /\ callerSignature.error = ""
    /\ LET c == VerifyCall(callerArgs, callerSignature.value)
       IN verifyProofCall(c.payload, c.publicInputs, c.verifierAnswer)
    /\ UNCHANGED offVars

\* server.js computing the digest of the same strings, with the verifier
\* address as its environment gives it: it keeps no state
BuildProofDigest ==
    /\ buildProofDigest(callerArgs.zkVerifierAddress, callerArgs.proofId,
                        callerArgs.issuer, callerArgs.subject,
                        callerArgs.proofBytesHex, callerArgs.publicInputs).error \in STRING
    /\ UNCHANGED vars

\* ------------------------------------------------------------------------
\* SpecSigner: the signing module under every argument, on a deployment
\* with the registry wired, the ZK verifier set and the deployer as the
\* trusted prover
\* ------------------------------------------------------------------------
InitSigner ==
    /\ Constructed({RegistryAddr}, {ZKAddr}, {Deployer}, {ZeroAddr})
    /\ RegistryWired([i \in 1..MaxAddr |-> i])
    /\ callerArgs \in SignerArgs
    /\ SignerIdle
    /\ BackendIdle

NextSigner ==
    \/ SignProofPayload
    \/ TamperProof
    \/ TamperInput
    \/ AlterSignature
    \/ RecoverSigner
    \/ VerifySigned
    \/ BuildProofDigest

SpecSigner == InitSigner /\ [][NextSigner]_vars

\* ------------------------------------------------------------------------
\* POST /verify of routes/proofs.js.  The handler runs from one await to the
\* next in one step; the chain is the Polygon Amoy network the handler
\* expects, and RPC_URL, PROOF_SIGNER_PRIVATE_KEY, PROOF_VERIFIER_ADDRESS and
\* AUDITOR_REGISTRY_ADDRESS are set and name the deployed contracts.
\* ------------------------------------------------------------------------
\* the trusted prover the handler expects: TRUSTED_PROVER_ADDRESS, or the
\* address of TRUSTED_PROVER_PRIVATE_KEY; throws when neither is set
expectedProverAddress(e) ==
    IF e.TRUSTED_PROVER_ADDRESS.form # ""
    THEN getAddress(e.TRUSTED_PROVER_ADDRESS)
    ELSE IF e.TRUSTED_PROVER_PRIVATE_KEY # NoKey
    THEN Returned(walletAddress(e.TRUSTED_PROVER_PRIVATE_KEY))
    ELSE Thrown("TRUSTED_PROVER_ADDRESS or TRUSTED_PROVER_PRIVATE_KEY must be set",
                NoAddressText)

\* the arguments the handler passes to recoverSignerFromSignature
recoverArgs(e, record) ==
    [zkVerifierAddress |-> e.ZK_VERIFIER_ADDRESS, proofId |-> record.proofId,
     issuer |-> record.auditor, subject |-> record.project,
     proofBytesHex |-> record.proof, publicInputs |-> record.publicInputs]

\* the local check that skips the comparison with the expected prover
localSignatureCheckNoComparison(e, record) ==
    IF recoverSignerFromSignature(recoverArgs(e, record), record.proofSignature).error # ""
    THEN "local_signature_recovery_failed"
    ELSE ""

\* the local signature validation: the error the handler answers with, ""
\* when the recovered signer is the expected prover
localSignatureCheck(e, record) ==
    LET recoveredSigner ==
            recoverSignerFromSignature(recoverArgs(e, record), record.proofSignature)
        expected == expectedProverAddress(e)
    IN IF recoveredSigner.error # "" THEN "local_signature_recovery_failed"
       ELSE IF expected.error # "" THEN "local_signature_recovery_failed"
       ELSE IF toLowerCase(recoveredSigner.value) # toLowerCase(expected.value)
       THEN "local_signature_mismatch"
       ELSE ""

\* the arguments of recordVerification the handler makes of the document
verifyArguments(record) ==
    [project |-> getAddress(record.project).value.value,
     auditor |-> getAddress(record.auditor).value.value,
     status |-> "verified",
     credentialId |-> proofIdBytes32(record.credentialId).value.value,
     proofId |-> proofIdBytes32(record.proofId).value.value,
     proof |-> getBytes(record.proof),
     publicInputs |-> [i \in 1..Len(record.publicInputs) |-> BigInt(record.publicInputs[i])],
     proofSignature |-> record.proofSignature,
     verifierAnswer |-> FALSE]

\* the handler answers and is done
respond(r, error) ==
    requests' = [requests EXCEPT ![r].pc = "done", ![r].response = error]

\* ProofRecord.findOne, the check of validatedOnChain and of the environment
VerifyFindRecord(r) ==
    /\ requests[r].pc = "idle"
    /\ \E proofId \in ProofIds :
           LET record == proofStore[proofId]
           IN IF ~record.exists
              THEN requests' = [requests EXCEPT ![r].pc = "done", ![r].proofId = proofId,
                                                ![r].response = "proof_not_found"]
              ELSE IF record.validatedOnChain
              THEN requests' = [requests EXCEPT ![r].pc = "done", ![r].proofId = proofId,
                                                ![r].response = "already_validated"]
              ELSE IF env.ZK_VERIFIER_ADDRESS.form = ""
              THEN requests' = [requests EXCEPT ![r].pc = "done", ![r].proofId = proofId,
                                                ![r].record = record,
                                                ![r].response = "server_misconfigured"]
              ELSE requests' = [requests EXCEPT ![r].pc = "found", ![r].proofId = proofId,
                                                ![r].record = record]
    /\ UNCHANGED <<chainVars, signerVars, env, proofStore, credentialDocs>>

\* after provider.getNetwork: the local signature validation, then
\* Credential.findOne is called
VerifyLocalCheck(r) ==
    /\ requests[r].pc = "found"
    /\ LET record == requests[r].record
           recoveredSigner ==
               recoverSignerFromSignature(recoverArgs(env, record), record.proofSignature)
           error == localSignatureCheck(env, record)
       IN IF error # ""
          THEN requests' = [requests EXCEPT ![r].pc = "done", ![r].response = error,
                               ![r].recoveredSigner = recoveredSigner.value]
          ELSE requests' = [requests EXCEPT ![r].pc = "checked",
                               ![r].recoveredSigner = recoveredSigner.value]
    /\ UNCHANGED <<chainVars, signerVars, env, proofStore, credentialDocs>>

\* after Credential.findOne: the validation of the parameters, then
\* isApprovedAuditor is called
VerifyFindCredential(r) ==
    /\ requests[r].pc = "checked"
    /\ LET record == requests[r].record
       IN IF record.credentialId.value \notin credentialDocs
          THEN respond(r, "credential_not_found")
          ELSE IF \/ getAddress(record.project).error # ""
                  \/ getAddress(record.auditor).error # ""
                  \/ Len(record.publicInputs) < 3
          THEN respond(r, "internal_error")
          ELSE requests' = [requests EXCEPT ![r].pc = "validated"]
    /\ UNCHANGED <<chainVars, signerVars, env, proofStore, credentialDocs>>

\* the answer of auditorRegistry.isApprovedAuditor
VerifyCheckAuditor(r) ==
    /\ requests[r].pc = "validated"
    /\ IF ~isApprovedAuditor(verifyArguments(requests[r].record).auditor)
       THEN respond(r, "auditor_not_approved")
       ELSE requests' = [requests EXCEPT ![r].pc = "approved"]
    /\ UNCHANGED <<chainVars, signerVars, env, proofStore, credentialDocs>>

\* the answer of proofVerifier.isCredentialAnchored
VerifyCheckAnchor(r) ==
    /\ requests[r].pc = "approved"
    /\ IF ~isCredentialAnchored(verifyArguments(requests[r].record).credentialId)
       THEN respond(r, "credential_not_anchored")
       ELSE requests' = [requests EXCEPT ![r].pc = "anchored"]
    /\ UNCHANGED <<chainVars, signerVars, env, proofStore, credentialDocs>>

\* proofVerifier.recordVerification(...): the gas estimate runs the call on
\* the current state and throws when it reverts; otherwise the transaction
\* is sent
VerifySend(r) ==
    /\ requests[r].pc = "anchored"
    /\ IF recordVerificationRevert(verifyArguments(requests[r].record)) # ""
       THEN respond(r, "onchain_call_failed")
       ELSE requests' = [requests EXCEPT ![r].pc = "sent", ![r].sent = TRUE]
    /\ UNCHANGED <<chainVars, signerVars, env, proofStore, credentialDocs>>

\* the transaction is mined and tx.wait returns, or throws when it reverted
VerifyMined(r) ==
    /\ requests[r].pc = "sent"
    /\ LET c == verifyArguments(requests[r].record)
       IN /\ recordVerification(c)
          /\ IF recordVerificationRevert(c) # ""
             THEN respond(r, "internal_error")
             ELSE requests' = [requests EXCEPT ![r].pc = "mined"]
    /\ UNCHANGED <<signerVars, env, proofStore, credentialDocs>>

\* the record marked and saved once the transaction is sent, before it is
\* mined
VerifySaveUnmined(r) ==
    /\ requests[r].pc \in {"sent", "mined"}
    /\ proofStore' = [proofStore EXCEPT ![requests[r].proofId].validatedOnChain = TRUE,
                                        ![requests[r].proofId].txnHash = "0x"]
    /\ respond(r, "success")
    /\ UNCHANGED <<chainVars, signerVars, env, credentialDocs>>

\* record.validatedOnChain = true, record.txnHash = receipt.hash, record.save
VerifySave(r) ==
    /\ requests[r].pc = "mined"
    /\ proofStore' = [proofStore EXCEPT ![requests[r].proofId].validatedOnChain = TRUE,
                                        ![requests[r].proofId].txnHash = "0x"]
    /\ respond(r, "success")
    /\ UNCHANGED <<chainVars, signerVars, env, credentialDocs>>

\* ------------------------------------------------------------------------
\* SpecBackend: POST /verify for a stored proof, on a deployment with the
\* registry wired and both accounts approved, while credentials are
\* anchored and auditors revoked.  The environment names the ZK verifier or
\* another contract or leaves it unset, names either account as the trusted
\* prover or leaves that unset, and holds the deployer's key or none.
\* ------------------------------------------------------------------------
\* the document POST /generate stores for a credential of auditor, with the
\* signature of key for the ZK verifier: checksummed addresses, a proof of
\* 256 bytes and the decimal public inputs project, auditor, summary hash
GeneratedProof(key, proofId, credentialId, project, auditor, summaryHash) ==
    LET a == [trustedProverPrivateKey |-> KeyText(key, TRUE),
              zkVerifierAddress |-> AddressText(ZKAddr, "checksum"),
              proofId |-> HexText(proofId, 32, TRUE),
              issuer |-> AddressText(auditor, "checksum"),
              subject |-> AddressText(project, "checksum"),
              proofBytesHex |-> ProofText(Groth16ProofLen, 0, "lower"),
              publicInputs |-> <<NumberText(project, "dec"), NumberText(auditor, "dec"),
                                 NumberText(summaryHash, "dec")>>]
    IN [exists |-> TRUE, proofId |-> a.proofId,
        credentialId |-> HexText(credentialId, 32, TRUE),
        project |-> a.subject, auditor |-> a.issuer, proof |-> a.proofBytesHex,
        publicInputs |-> a.publicInputs, proofSignature |-> signProofPayload(a).value,
        validatedOnChain |-> FALSE, txnHash |-> ""]

\* the documents of the collection for a proof id: those /generate stores
\* for credential MaxId of either auditor with either key, and the same with
\* the signature missing, cut to 64 bytes or with an EIP-155 v
InitBackend ==
    /\ Constructed({RegistryAddr}, {ZKAddr}, {Deployer}, {ZeroAddr})
    /\ RegistryWired([i \in 1..MaxAddr |-> i])
    /\ SignerIdle
    /\ callerArgs = <<>>
    /\ env \in {Env(zk, a, k)
                 : zk \in {AddressText(ZKAddr, "checksum"), AddressText(PVAddr, "checksum"),
                           NoAddressText},
                   a \in {NoAddressText} \cup {AddressText(x, "lower") : x \in Accounts},
                   k \in {NoKey, KeyText(Deployer, TRUE)}}
    /\ \E stored \in UNION {{g, [g EXCEPT !.proofSignature = EmptyBytes],
                              [g EXCEPT !.proofSignature.len = 64],
                              [g EXCEPT !.proofSignature.v = @ + 8]}
                             : g \in {GeneratedProof(k, MaxProofId, MaxId, MaxAddr, a, MaxHash)
                                        : k \in Accounts, a \in Accounts}} :
           proofStore = [p \in ProofIds |-> IF p = MaxProofId THEN stored ELSE NoStoredProof]
    /\ credentialDocs \in {{}, {MaxId}}
    /\ requests = [r \in Requests |-> NoRequest]

NextBackend ==
    \/ \E r \in Requests : VerifyFindRecord(r)
    \/ \E r \in Requests : VerifyLocalCheck(r)
    \/ \E r \in Requests : VerifyFindCredential(r)
    \/ \E r \in Requests : VerifyCheckAuditor(r)
    \/ \E r \in Requests : VerifyCheckAnchor(r)
    \/ \E r \in Requests : VerifySend(r)
    \/ \E r \in Requests : VerifyMined(r)
    \/ \E r \in Requests : VerifySave(r)
    \/ AnchorCredential
    \/ RevokeAuditor

SpecBackend == InitBackend /\ [][NextBackend]_vars

\* ------------------------------------------------------------------------
\* POST /generate of routes/proofs.js, served for the credential MaxId of
\* the Credential collection
\* ------------------------------------------------------------------------
\* Credential.findOne, the proof id, the public inputs and signProofPayload.
\* The proof id is keccak256 of the text credentialId-Date.now(): for the
\* one credential, a different id for every reading of the millisecond
\* clock and the same id for the same reading.  The subject, the issuer and
\* the summary hash are those of the credential document.
GenerateSign(r) ==
    /\ requests[r].pc = "idle"
    /\ \E credentialId \in Ids, dateNow \in 1..(MaxProofId + 1), issuer \in Accounts :
           LET proofId == dateNow - 1
               g == GeneratedProof(env.TRUSTED_PROVER_PRIVATE_KEY.key, proofId,
                                   credentialId, MaxAddr, issuer, MaxHash)
               proofSignature ==
                   signProofPayload([trustedProverPrivateKey |->
                                         env.TRUSTED_PROVER_PRIVATE_KEY]
                                    @@ recoverArgs(env, g))
           IN IF credentialId \notin credentialDocs
              THEN respond(r, "credential_not_found")
              ELSE IF \/ env.TRUSTED_PROVER_PRIVATE_KEY = NoKey
                      \/ env.ZK_VERIFIER_ADDRESS.form = ""
                      \/ proofSignature.error # ""
              THEN respond(r, "internal_error")
              ELSE requests' =
                       [requests EXCEPT ![r].pc = "signed", ![r].proofId = proofId,
                            ![r].record =
                                [g EXCEPT !.proofSignature = proofSignature.value]]
    /\ UNCHANGED <<chainVars, signerVars, env, proofStore, credentialDocs>>

\* record.save: the unique index on proofId rejects a second document with
\* the same proof id, and the handler answers from its catch
GenerateSave(r) ==
    /\ requests[r].pc = "signed"
    /\ IF proofStore[requests[r].proofId].exists
       THEN /\ respond(r, "internal_error")
            /\ UNCHANGED proofStore
       ELSE /\ proofStore' = [proofStore EXCEPT ![requests[r].proofId] = requests[r].record]
            /\ respond(r, "success")
    /\ UNCHANGED <<chainVars, signerVars, env, credentialDocs>>

\* SpecGenerate: POST /generate requests served at the same time, in every
\* environment and with a document already stored
NextGenerate ==
    \/ \E r \in Requests : GenerateSign(r)
    \/ \E r \in Requests : GenerateSave(r)

SpecGenerate == InitBackend /\ [][NextGenerate]_vars

\* ------------------------------------------------------------------------
\* Properties
\* ------------------------------------------------------------------------
\* C1, as stated: once proofValidated[p] is set, every recordVerification
\* call that passes p is rejected with "Proof already used", whatever its
\* other arguments are, and proofValidated[p] never returns to false.
C1_AnyArguments ==
    /\ [](\A c \in RecordCalls :
            proofValidated[c.proofId] =>
                recordVerificationRevert(c) = "Proof already used")
    /\ [][\A p \in ProofIds : proofValidated[p] => proofValidated'[p]]_vars

\* C1, amended: once proofValidated[p] is set, every recordVerification call
\* that passes p is rejected, with "Proof already used" when its project and
\* auditor are non-zero and its status is non-empty (a call that fails one of
\* these is rejected with that check's own reason), whatever operations
\* happen in between; proofValidated[p] never returns to false.
C1_SingleUse ==
    /\ [](\A c \in RecordCalls :
            proofValidated[c.proofId] =>
                /\ recordVerificationRevert(c) # ""
                /\ (c.project # ZeroAddr /\ c.auditor # ZeroAddr /\ c.status # "")
                      => recordVerificationRevert(c) = "Proof already used")
    /\ [][\A p \in ProofIds : proofValidated[p] => proofValidated'[p]]_vars

\* a proofId validated in an earlier block is passed again, for another
\* project, in a call that passes every other check
C1_Replayed ==
    \E c \in RecordCalls :
        /\ proofValidated[c.proofId]
        /\ proofRecords[c.proofId].timestamp < now
        /\ c.project # ZeroAddr
        /\ c.project # proofRecords[c.proofId].project
        /\ credentialAnchored[c.credentialId]
        /\ credentials[c.credentialId].issuer = c.auditor
        /\ summaryHashInputMatches(c)
        /\ backendRevert(c) = ""
        /\ recordVerificationRevert(c) = "Proof already used"

\* C2: once a credential id is anchored, every issueCredential and every
\* anchorCredential call with that id is rejected, whoever calls and
\* whatever the other arguments are, and isCredentialAnchored(id) is true in
\* every later state.
C2_IdempotentAnchoring ==
    /\ [](\A id \in Ids :
            credentialAnchored[id] =>
                /\ isCredentialAnchored(id)
                /\ \A c \in AnyIssueCalls :
                       c.id = id =>
                           issueCredentialRevert(c.sender, c.id, c.subject,
                                                 c.summaryHash, c.signature) # ""
                /\ \A c \in AnchorCalls :
                       c.id = id =>
                           anchorCredentialRevert(c.sender, c.id, c.summaryHash,
                                                  c.issuer) # "")
    /\ [][\A id \in Ids : credentialAnchored[id] => credentialAnchored'[id]]_vars

\* a credential anchored in an earlier block is issued again by another
\* approved caller, with a good signature, and is rejected as already issued
C2_IssuedAgain ==
    \E c \in IssueCalls :
        /\ credentialAnchored[c.id]
        /\ credentials[c.id].timestamp < now
        /\ credentials[c.id].issuer # c.sender
        /\ c.summaryHash # 0
        /\ onlyApprovedAuditor(c.sender)
        /\ registryIncrementRevert(c.sender) = ""
        /\ issueCredentialRevert(c.sender, c.id, c.subject, c.summaryHash,
                                 c.signature) = "Credential already issued"

\* C3: once credentials[id] has been written, no operation changes its
\* issuer, summaryHash, timestamp or signature.
C3_RecordImmutable ==
    [][\A id \in Ids :
          credentialAnchored[id] =>
              /\ credentials'[id].issuer = credentials[id].issuer
              /\ credentials'[id].summaryHash = credentials[id].summaryHash
              /\ credentials'[id].timestamp = credentials[id].timestamp
              /\ credentials'[id].signature = credentials[id].signature]_vars

\* a credential written by issueCredential in an earlier block, while another
\* account could anchor for itself
C3_WrittenEarlier ==
    \E id \in Ids, other \in Accounts :
        /\ credentialAnchored[id]
        /\ credentials[id].signature # EmptyBytes
        /\ credentials[id].timestamp < now
        /\ credentials[id].issuer # other
        /\ onlyApprovedAuditor(other)
        /\ registryIncrementRevert(other) = ""

\* C4: recordVerification is rejected whenever publicInputs[2] differs from
\* the summaryHash of the anchored credential named by credentialId, also
\* when the proof signature is the trusted prover's over exactly these
\* public inputs, and the call changes no state.
C4_CredentialBinding ==
    \A c \in AnyRecordCalls :
        (/\ Len(c.publicInputs) >= 3
         /\ credentialAnchored[c.credentialId]
         /\ c.publicInputs[3] # credentials[c.credentialId].summaryHash)
        => /\ recordVerificationRevert(c) # ""
           /\ recordVerificationOutcome(c).proofValidated = proofValidated
           /\ recordVerificationOutcome(c).proofRecords = proofRecords
           /\ recordVerificationOutcome(c).verified = verified
           /\ recordVerificationOutcome(c).projectAuditor = projectAuditor

\* a call signed by the trusted prover over public inputs whose third
\* element is not the credential's summaryHash, every other check passing
C4_WrongHashSigned ==
    \E c \in AnyRecordCalls :
        /\ credentialAnchored[c.credentialId]
        /\ Len(c.publicInputs) = 3
        /\ c.publicInputs[3] # credentials[c.credentialId].summaryHash
        /\ trustedProver # ZeroAddr
        /\ c.proofSignature = ProofSignature(trustedProver, c.proofId, c.auditor,
                                             c.project, c.proof, c.publicInputs)
        /\ backendRevert(c) = ""
        /\ recordVerificationRevert(c) = "Summary hash mismatch"

\* C5: when the credential credentialId was issued by auditor for the
\* subject project with summaryHash, the verifier is configured, proofId is
\* unused, the status is non-empty and the trusted prover has signed the
\* payload with publicInputs = [project, auditor, summaryHash],
\* recordVerification with these values succeeds and sets verified[project];
\* with publicInputs[0] replaced by any other value, whether the signature
\* is kept or made again over the replaced inputs, it is rejected with
\* "Project mismatch" and verified is left as it was.
C5_EndToEnd ==
    \A c \in AnyRecordCalls :
        (/\ c.project # ZeroAddr
         /\ c.status # ""
         /\ zkVerifier = ZKAddr
         /\ trustedProver # ZeroAddr
         /\ ~proofValidated[c.proofId]
         /\ credentialAnchored[c.credentialId]
         /\ credentials[c.credentialId].issuer = c.auditor
         /\ credentials[c.credentialId].signature =
                CredentialSignature(c.auditor, c.credentialId, c.project,
                                    credentials[c.credentialId].summaryHash)
         /\ c.publicInputs = <<c.project, c.auditor,
                               credentials[c.credentialId].summaryHash>>
         /\ c.proofSignature = ProofSignature(trustedProver, c.proofId, c.auditor,
                                              c.project, c.proof, c.publicInputs))
        => /\ recordVerificationRevert(c) = ""
           /\ recordVerificationOutcome(c).verified[c.project]
           /\ \A x \in PublicValues \ {c.project} :
                \A d \in {[c EXCEPT !.publicInputs[1] = x],
                          RecordCall(c.project, c.auditor, c.status, c.credentialId,
                                     c.proofId, [c.publicInputs EXCEPT ![1] = x],
                                     trustedProver)} :
                    /\ recordVerificationRevert(d) = "Project mismatch"
                    /\ recordVerificationOutcome(d).verified = verified

\* the scenario's call for a project not verified yet, after another
\* project has been verified
C5_ScenarioReady ==
    \E c \in AnyRecordCalls :
        /\ c.project # ZeroAddr
        /\ c.status # ""
        /\ zkVerifier = ZKAddr
        /\ trustedProver # ZeroAddr
        /\ ~proofValidated[c.proofId]
        /\ credentialAnchored[c.credentialId]
        /\ credentials[c.credentialId].issuer = c.auditor
        /\ credentials[c.credentialId].signature =
               CredentialSignature(c.auditor, c.credentialId, c.project,
                                   credentials[c.credentialId].summaryHash)
        /\ c.publicInputs = <<c.project, c.auditor,
                              credentials[c.credentialId].summaryHash>>
        /\ c.proofSignature = ProofSignature(trustedProver, c.proofId, c.auditor,
                                             c.project, c.proof, c.publicInputs)
        /\ ~verified[c.project]
        /\ \E q \in Accounts : verified[q]

\* C6: recordVerification checks, in this order: zero project or auditor
\* address; empty status; verifier not configured; proofId already
\* validated; fewer than 3 public inputs; zero credentialId; credential not
\* anchored; credential issuer differs from auditor; publicInputs[0] differs
\* from project; publicInputs[1] differs from auditor; publicInputs[2]
\* differs from the summaryHash; the backend rejects. A call violating
\* several is rejected with the reason of the earliest one, and a call
\* violating none succeeds.
C6_PreconditionOrder ==
    \A c \in AnyRecordCalls :
        LET n == Len(c.publicInputs)
            violated ==
                << c.project = ZeroAddr \/ c.auditor = ZeroAddr,
                   c.status = "",
                   zkVerifier = ZeroAddr,
                   proofValidated[c.proofId],
                   n < 3,
                   c.credentialId = 0,
                   ~credentialAnchored[c.credentialId],
                   credentials[c.credentialId].issuer # c.auditor,
                   n < 1 \/ c.publicInputs[1] # c.project,
                   n < 2 \/ c.publicInputs[2] # c.auditor,
                   n < 3 \/ c.publicInputs[3] # credentials[c.credentialId].summaryHash,
                   backendRevert(c) # "" >>
            reason ==
                << "Invalid address", "Status cannot be empty",
                   "Verifier not configured", "Proof already used",
                   "Invalid proof inputs", "Invalid credential id",
                   "Credential not anchored", "Auditor mismatch",
                   "Project mismatch", "Auditor input mismatch",
                   "Summary hash mismatch", backendRevert(c) >>
            failing == {i \in 1..12 : violated[i]}
        IN IF failing = {}
           THEN recordVerificationRevert(c) = ""
           ELSE recordVerificationRevert(c) =
                    reason[CHOOSE i \in failing : \A j \in failing : i <= j]

\* a call with an empty status that passes a validated proofId and names a
\* credential of another issuer: three violations, rejected for the status
C6_SeveralViolated ==
    \E c \in AnyRecordCalls :
        /\ c.project # ZeroAddr
        /\ c.auditor # ZeroAddr
        /\ c.status = ""
        /\ zkVerifier # ZeroAddr
        /\ proofValidated[c.proofId]
        /\ credentialAnchored[c.credentialId]
        /\ credentials[c.credentialId].issuer # c.auditor
        /\ recordVerificationRevert(c) = "Status cannot be empty"

\* C7: a recordVerification call that is rejected leaves proofValidated,
\* proofRecords, verified and projectAuditor as they were and emits no
\* ProofValidated, AuditVerified or ProofVerified event.
C7_FailureChangesNothing ==
    \A c \in AnyRecordCalls :
        recordVerificationRevert(c) # ""
        => /\ recordVerificationOutcome(c).proofValidated = proofValidated
           /\ recordVerificationOutcome(c).proofRecords = proofRecords
           /\ recordVerificationOutcome(c).verified = verified
           /\ recordVerificationOutcome(c).projectAuditor = projectAuditor
           /\ \A i \in 1..Len(recordVerificationOutcome(c).events) :
                recordVerificationOutcome(c).events[i].name
                    \notin {"ProofValidated", "AuditVerified", "ProofVerified"}

\* after one project has been verified, a call for an unused proofId and a
\* project not verified yet passes every check of recordVerification and is
\* rejected by the backend for its signature
C7_RejectedByBackend ==
    \E c \in AnyRecordCalls :
        /\ recordVerificationRevert(c) = "Invalid proof signature"
        /\ ~proofValidated[c.proofId]
        /\ ~verified[c.project]
        /\ \E p \in ProofIds : proofValidated[p]

\* C8: a recordVerification call that succeeds sets proofValidated[proofId],
\* writes proofRecords[proofId] = (project, auditor, the credential's
\* summaryHash, the block's timestamp), sets verified[project] and
\* projectAuditor[project] = auditor, emits exactly one ProofValidated and
\* one AuditVerified event, and leaves the entries of every other proofId
\* and project as they were.
C8_SuccessEffect ==
    \A c \in AnyRecordCalls :
        recordVerificationRevert(c) = ""
        => LET out == recordVerificationOutcome(c)
           IN /\ out.proofValidated[c.proofId]
              /\ out.proofRecords[c.proofId] =
                     [project |-> c.project, auditor |-> c.auditor,
                      summaryHash |-> credentials[c.credentialId].summaryHash,
                      timestamp |-> now]
              /\ out.verified[c.project]
              /\ out.projectAuditor[c.project] = c.auditor
              /\ Cardinality({i \in 1..Len(out.events) :
                                out.events[i].name = "ProofValidated"}) = 1
              /\ Cardinality({i \in 1..Len(out.events) :
                                out.events[i].name = "AuditVerified"}) = 1
              /\ \A p \in ProofIds \ {c.proofId} :
                    /\ out.proofValidated[p] = proofValidated[p]
                    /\ out.proofRecords[p] = proofRecords[p]
              /\ \A q \in Addr \ {c.project} :
                    /\ out.verified[q] = verified[q]
                    /\ out.projectAuditor[q] = projectAuditor[q]

\* a call that succeeds in a later block than the one in which another
\* project was verified under another proofId
C8_SecondSuccess ==
    \E c \in AnyRecordCalls, p \in ProofIds :
        /\ recordVerificationRevert(c) = ""
        /\ proofValidated[p]
        /\ proofRecords[p].project # c.project
        /\ proofRecords[p].timestamp < now
        /\ ~verified[c.project]

\* C9: in every reachable state, issueCredential and anchorCredential are
\* rejected when the caller is not an approved auditor of the
\* AuditorRegistry at that moment.
C9_OnlyApprovedIssuers ==
    /\ \A c \in IssueCalls :
         ~isApprovedAuditor(c.sender) =>
             issueCredentialRevert(c.sender, c.id, c.subject, c.summaryHash,
                                   c.signature) # ""
    /\ \A c \in AnchorCalls :
         ~isApprovedAuditor(c.sender) =>
             anchorCredentialRevert(c.sender, c.id, c.summaryHash, c.issuer) # ""

\* C10: issueCredential succeeds only if the signature is the caller's
\* personal-sign signature over keccak256(id, subject, summaryHash) of the
\* call's own arguments; in a call that passes the earlier checks (approved
\* caller, non-zero subject, id not anchored, non-zero id and summaryHash,
\* 65 bytes), a signature made by another key, or by the caller over another
\* id, subject or summaryHash, is rejected with "Invalid signature"; and a
\* rejected call anchors nothing.
C10_SignatureBinding ==
    \A c \in AnyIssueCalls :
        LET revert == issueCredentialRevert(c.sender, c.id, c.subject,
                                            c.summaryHash, c.signature)
            out == issueCredentialOutcome(c.sender, c.id, c.subject,
                                          c.summaryHash, c.signature)
            digest == EthSignedMessageHash(
                          CredentialMessageHash(c.id, c.subject, c.summaryHash))
        IN /\ revert = "" =>
                 /\ c.signature.key = c.sender
                 /\ c.signature.digest = digest
           /\ (/\ onlyApprovedAuditor(c.sender)
               /\ c.subject # ZeroAddr
               /\ ~credentialAnchored[c.id]
               /\ c.id # 0
               /\ c.summaryHash # 0
               /\ c.signature.len = 65
               /\ (c.signature.key # c.sender \/ c.signature.digest # digest))
              => revert = "Invalid signature"
           /\ revert # "" =>
                 /\ out.credentials = credentials
                 /\ out.credentialAnchored = credentialAnchored

\* an approved auditor of a registry that is wired to the proof verifier
\* calls with its own signature over another subject, and another account's
\* signature over the call's arguments is offered in its name
C10_ForeignSignatures ==
    \E c \in AnyIssueCalls, d \in AnyIssueCalls :
        /\ auditorRegistry = RegistryAddr
        /\ proofVerifier = PVAddr
        /\ isApprovedAuditor(c.sender)
        /\ c.signature.key = c.sender
        /\ c.signature.digest # EthSignedMessageHash(
                                    CredentialMessageHash(c.id, c.subject, c.summaryHash))
        /\ issueCredentialRevert(c.sender, c.id, c.subject, c.summaryHash,
                                 c.signature) = "Invalid signature"
        /\ d.sender = c.sender
        /\ d.signature.key # d.sender
        /\ d.signature.digest = EthSignedMessageHash(
                                    CredentialMessageHash(d.id, d.subject, d.summaryHash))
        /\ issueCredentialRevert(d.sender, d.id, d.subject, d.summaryHash,
                                 d.signature) = "Invalid signature"

C12_Groth16Decides ==
    \A c \in VerifyCalls :
        LET res == verifyProof(c.payload, c.publicInputs, c.verifierAnswer)
            applicable == groth16Verifier # ZeroAddr /\ c.payload.proof.len >= 256
            groth16Accepts == Len(c.publicInputs) = 3 /\ c.verifierAnswer
            signatureAccepts ==
                /\ trustedProver # ZeroAddr
                /\ c.payload.signature =
                       ProofSignature(trustedProver, c.payload.proofId, c.payload.issuer,
                                      c.payload.subject, c.payload.proof, c.publicInputs)
        IN IF applicable
           THEN (res.reason = "" /\ res.result) <=> groth16Accepts
           ELSE (res.reason = "" /\ res.result) <=> signatureAccepts

\* C12, amended: verifyProof uses the signature check when the Groth16
\* verifier is unset or the proof is shorter than 256 bytes.  When the
\* Groth16 verifier is set and the proof has at least 256 bytes, a proof the
\* Groth16 check accepts (three public inputs and the pairing verifier
\* answers true) is accepted as "Groth16" whatever its signature is; one the
\* Groth16 check rejects is decided by the signature check, so it is still
\* accepted, as "Signature", when the trusted prover signed it.  verifyProof
\* never returns false: it returns true or reverts.
C12_BackendSelection ==
    \A c \in VerifyCalls :
        LET res == verifyProof(c.payload, c.publicInputs, c.verifierAnswer)
            applicable == groth16Verifier # ZeroAddr /\ c.payload.proof.len >= 256
            groth16Accepts == Len(c.publicInputs) = 3 /\ c.verifierAnswer
            signatureAccepts ==
                /\ trustedProver # ZeroAddr
                /\ c.payload.signature =
                       ProofSignature(trustedProver, c.payload.proofId, c.payload.issuer,
                                      c.payload.subject, c.payload.proof, c.publicInputs)
        IN /\ res.reason = "" => res.result
           /\ IF applicable /\ groth16Accepts
              THEN res.reason = "" /\ res.proofType = "Groth16"
              ELSE /\ res.reason = "" <=> signatureAccepts
                   /\ res.reason = "" => res.proofType = "Signature"

\* after the admin of the ZK verifier has changed, a proof of 256 bytes that
\* the configured Groth16 verifier rejects is accepted for the trusted
\* prover's signature
C12_RejectedThenSigned ==
    \E c \in VerifyCalls :
        /\ groth16Verifier # ZeroAddr
        /\ zkAdmin # Deployer
        /\ c.payload.proof.len >= 256
        /\ Len(c.publicInputs) = 3
        /\ ~c.verifierAnswer
        /\ verifyProof(c.payload, c.publicInputs, c.verifierAnswer).proofType = "Signature"

\* C13, as stated: while zkVerifier is the zero address every
\* recordVerification call fails with "Verifier not configured"; while the
\* ZK verifier has no trusted prover and the Groth16 path is not applicable,
\* every verifyProof call fails with "Prover not configured"; in both
\* situations no call makes a project verified.
C13_AlwaysThatReason ==
    /\ \A c \in ProofCalls :
          /\ zkVerifier = ZeroAddr =>
                /\ recordVerificationRevert(c) = "Verifier not configured"
                /\ recordVerificationOutcome(c).verified = verified
          /\ (trustedProver = ZeroAddr
                /\ (groth16Verifier = ZeroAddr \/ c.proof.len < 256)) =>
                recordVerificationOutcome(c).verified = verified
    /\ \A c \in VerifyCalls :
          (trustedProver = ZeroAddr
             /\ (groth16Verifier = ZeroAddr \/ c.payload.proof.len < 256)) =>
             verifyProof(c.payload, c.publicInputs, c.verifierAnswer).reason
                 = "Prover not configured"

\* C13, amended: while zkVerifier is the zero address every
\* recordVerification call fails, with "Verifier not configured" when its
\* project and auditor are non-zero and its status is non-empty (otherwise
\* with the reason of that earlier check); while the ZK verifier has no
\* trusted prover and the Groth16 path is not applicable (verifier unset or
\* proof shorter than 256 bytes), every verifyProof call fails with "Prover
\* not configured" and every recordVerification call fails; in both
\* situations no call makes a project verified.
C13_Unavailable ==
    /\ \A c \in ProofCalls :
          /\ zkVerifier = ZeroAddr =>
                /\ recordVerificationRevert(c) # ""
                /\ (c.project # ZeroAddr /\ c.auditor # ZeroAddr /\ c.status # "")
                      => recordVerificationRevert(c) = "Verifier not configured"
                /\ recordVerificationOutcome(c).verified = verified
          /\ (trustedProver = ZeroAddr
                /\ (groth16Verifier = ZeroAddr \/ c.proof.len < 256)) =>
                /\ recordVerificationRevert(c) # ""
                /\ recordVerificationOutcome(c).verified = verified
    /\ \A c \in VerifyCalls :
          (trustedProver = ZeroAddr
             /\ (groth16Verifier = ZeroAddr \/ c.payload.proof.len < 256)) =>
             verifyProof(c.payload, c.publicInputs, c.verifierAnswer).reason
                 = "Prover not configured"

\* neither a verifier nor a trusted prover is configured; a call for an
\* anchored credential that passes the checks before the verifier's is
\* rejected for the missing verifier, and a direct verifyProof for the
\* missing prover
C13_NothingConfigured ==
    /\ zkVerifier = ZeroAddr
    /\ trustedProver = ZeroAddr
    /\ \E c \in ProofCalls :
          /\ credentialAnchored[c.credentialId]
          /\ credentials[c.credentialId].issuer = c.auditor
          /\ credentials[c.credentialId].timestamp < now
          /\ Len(c.publicInputs) = 3
          /\ recordVerificationRevert(c) = "Verifier not configured"
    /\ \E c \in VerifyCalls :
          verifyProof(c.payload, c.publicInputs, c.verifierAnswer).reason
              = "Prover not configured"

\* C14: whenever the signer was recovered from the signature signProofPayload
\* returned, with the arguments it was made for, recoverSignerFromSignature
\* returned the address of the private key; and signProofPayload returns a
\* signature for all arguments that are addresses, a proof id of at most 32
\* bytes, a proof and numbers.
C14_RoundTrip ==
    /\ (/\ callerSignature.error # "not called"
        /\ getAddress(callerArgs.zkVerifierAddress).error = ""
        /\ getAddress(callerArgs.issuer).error = ""
        /\ getAddress(callerArgs.subject).error = ""
        /\ callerArgs.proofId.bytes <= 32)
           => callerSignature.error = ""
    /\ (Untampered /\ callerRecovered.error # "not called")
           => callerRecovered = Returned(walletAddress(callerArgs.trustedProverPrivateKey))

\* a signature over a lower-case issuer, a proof id without 0x and hex
\* public inputs, made with a key without 0x, and its signer recovered
C14_Recovered ==
    /\ Untampered
    /\ callerRecovered.error = ""
    /\ callerArgs.issuer.form = "lower"
    /\ ~callerArgs.proofId.prefixed
    /\ ~callerArgs.trustedProverPrivateKey.prefixed
    /\ callerArgs.publicInputs[1].form = "hex"
\* C15: a change of one byte of the proof or of one public input changes
\* the digest; and whenever the caller holds the signature its key made over
\* arguments other than the ones it holds now, recoverSignerFromSignature
\* yields an address that is not the signer's and verifyProof rejects the
\* payload with "Invalid proof signature".
C15_TamperSensitivity ==
    /\ [][callerArgs' # callerArgs =>
             recoverMessageHash(callerArgs').value # recoverMessageHash(callerArgs).value]_vars
    /\ [](( /\ callerSignature.error = ""
            /\ callerSignature.value = Sign(callerArgs.trustedProverPrivateKey.key,
                                            callerSignature.value.digest)
            /\ ~Untampered )
           => /\ recoverSignerFromSignature(callerArgs, callerSignature.value).value
                    # walletAddress(callerArgs.trustedProverPrivateKey)
              /\ callerRecovered.error # "not called"
                    => callerRecovered.value # walletAddress(callerArgs.trustedProverPrivateKey)
              /\ LET c == VerifyCall(callerArgs, callerSignature.value)
                 IN verifyProof(c.payload, c.publicInputs, c.verifierAnswer).reason
                        = "Invalid proof signature")

\* the trusted prover's signature for the deployed verifier, held with a
\* changed proof or public input, and the recovery done
C15_Tampered ==
    /\ callerSignature.error = ""
    /\ callerSignature.value = Sign(trustedProver, callerSignature.value.digest)
    /\ callerArgs.trustedProverPrivateKey.key = trustedProver
    /\ callerArgs.zkVerifierAddress.value = ZKAddr
    /\ ~Untampered
    /\ callerRecovered.error = ""
\* C16: for the strings a caller holds, with A the address its verifier
\* string spells, each of signProofPayload, recoverSignerFromSignature and
\* buildProofDigest that returns a digest returns the messageHash of the
\* contract at A: keccak256(abi.encode(A, proofId, issuer, subject,
\* keccak256(proof), keccak256(abi.encode(publicInputs)))); all three return
\* one when the addresses are valid and the proof id is a 0x string of 32
\* bytes; and the deployed verifier accepts the trusted prover's signature
\* over the off-chain digest made for its address.
C16_DigestAgreement ==
    LET a == callerArgs
        onChain == ProofMessageHash(a.zkVerifierAddress.value, a.proofId.value,
                                    a.issuer.value, a.subject.value,
                                    ProofBytes(a.proofBytesHex.len, a.proofBytesHex.body),
                                    [i \in 1..Len(a.publicInputs) |-> a.publicInputs[i].value])
        signed == signMessageHash(a)
        recomputed == recoverMessageHash(a)
        built == buildProofDigest(a.zkVerifierAddress, a.proofId, a.issuer, a.subject,
                                  a.proofBytesHex, a.publicInputs)
    IN /\ signed.error = "" => signed.value = onChain
       /\ recomputed.error = "" => recomputed.value = onChain
       /\ built.error = "" => built.value = onChain
       /\ ( /\ a.zkVerifierAddress.form \in {"checksum", "lower"}
            /\ a.issuer.form \in {"checksum", "lower"}
            /\ a.subject.form \in {"checksum", "lower"}
            /\ a.proofId.prefixed /\ a.proofId.bytes = 32 )
           => signed.error = "" /\ recomputed.error = "" /\ built.error = ""
       /\ ( /\ Untampered
            /\ a.trustedProverPrivateKey.key = trustedProver
            /\ a.zkVerifierAddress.value = ZKAddr )
           => LET c == VerifyCall(a, callerSignature.value)
              IN verifyProof(c.payload, c.publicInputs, c.verifierAnswer).reason = ""

\* a signature of the trusted prover for the deployed verifier, over an
\* issuer and a subject that differ, for which all three functions return a
\* digest
C16_SignedForDeployed ==
    /\ Untampered
    /\ callerArgs.trustedProverPrivateKey.key = trustedProver
    /\ callerArgs.zkVerifierAddress.value = ZKAddr
    /\ callerArgs.issuer.value # callerArgs.subject.value
    /\ recoverMessageHash(callerArgs).error = ""
    /\ buildProofDigest(callerArgs.zkVerifierAddress, callerArgs.proofId,
                        callerArgs.issuer, callerArgs.subject,
                        callerArgs.proofBytesHex, callerArgs.publicInputs).error = ""
\* C17, as stated: for every signature a caller holds and the digest of its
\* arguments, the contract (the length check of verifyProof and
\* _recoverSigner) and recoverSignerFromSignature both return the same
\* address when the signature has 65 bytes and its v, with 27 added when the
\* byte is below 27, is 27 or 28, and both fail for any other signature.
C17_SymmetricAcceptance ==
    callerSignature.error = "" =>
        LET sig == callerSignature.value
            messageHash == recoverMessageHash(callerArgs).value
            onChain == IF sig.len # 65
                       THEN [reason |-> "Invalid signature length", signer |-> ZeroAddr]
                       ELSE _recoverSigner(messageHash, sig)
            offChain == recoverSignerFromSignature(callerArgs, sig)
            v == IF sig.v < 27 THEN sig.v + 27 ELSE sig.v
        IN IF sig.len = 65 /\ v \in {27, 28}
           THEN /\ onChain.reason = ""
                /\ offChain.error = ""
                /\ offChain.value.value = onChain.signer
           ELSE /\ onChain.reason # ""
                /\ offChain.error # ""
\* C18: a /verify request has sent its recordVerification transaction only
\* if the signer it recovered locally from the stored signature is the
\* expected trusted prover; a request whose local recovery throws or yields
\* another address is answered with local_signature_recovery_failed or
\* local_signature_mismatch and has sent no transaction.
C18_LocalCheckFirst ==
    \A r \in Requests :
        LET q == requests[r]
            expected == expectedProverAddress(env)
            recoveredSigner ==
                recoverSignerFromSignature(recoverArgs(env, q.record), q.record.proofSignature)
            passed == /\ recoveredSigner.error = ""
                      /\ expected.error = ""
                      /\ toLowerCase(recoveredSigner.value) = toLowerCase(expected.value)
        IN /\ q.sent =>
                /\ passed
                /\ q.recoveredSigner = recoveredSigner.value
                /\ q.pc \in {"sent", "mined", "done"}
           /\ (q.pc \notin {"idle", "found"} /\ q.record.exists /\ ~passed) =>
                /\ q.pc = "done"
                /\ ~q.sent
                /\ \/ q.response = "server_misconfigured"
                   \/ q.response = IF recoveredSigner.error # "" \/ expected.error # ""
                                   THEN "local_signature_recovery_failed"
                                   ELSE "local_signature_mismatch"
           /\ q.response \in {"local_signature_recovery_failed", "local_signature_mismatch"}
                => ~q.sent /\ ~passed

\* a request answered with local_signature_mismatch for a proof the
\* contract's trusted prover signed
C18_LocalMismatch ==
    \E r \in Requests :
        /\ requests[r].response = "local_signature_mismatch"
        /\ requests[r].recoveredSigner.value = trustedProver
\* C19, as stated: every recordVerification call that runs to its end has
\* exactly three public inputs, which are the project, the auditor and the
\* summary hash of the anchored credential.
C19_ExactlyThreeInputs ==
    \A c \in ProofCalls :
        recordVerificationRevert(c) = "" =>
            /\ Len(c.publicInputs) = 3
            /\ c.publicInputs = <<c.project, c.auditor,
                                  credentials[c.credentialId].summaryHash>>
\* C20: in every reachable state and for every id, getCredential(id) is the
\* all-zero record exactly when isCredentialAnchored(id) is false; an
\* anchored record has its key as id, a non-zero issuer and a non-zero
\* summary hash; and a step that calls the two lookups changes no state.
C20_AbsentOrAnchored ==
    /\ [](\A id \in Ids :
            /\ getCredential(id) = NoCredential <=> ~isCredentialAnchored(id)
            /\ isCredentialAnchored(id) =>
                   /\ getCredential(id).id = id
                   /\ getCredential(id).issuer # ZeroAddr
                   /\ getCredential(id).summaryHash # 0)
    /\ [][CredentialLookup => UNCHANGED vars]_vars

\* one id anchored and another one not
C20_OneAnchoredOneAbsent ==
    \E id \in Ids, other \in Ids :
        /\ isCredentialAnchored(id)
        /\ getCredential(id).signature # EmptyBytes
        /\ ~isCredentialAnchored(other)

\* C21: once verified[project] is true it stays true under every operation
\* (revocation of the auditor, replacement of the verifier or the registry,
\* further recordVerification calls that run to their end or revert), and a
\* recordVerification for an already verified project runs to its end only
\* with a proofId that has not been validated before.
C21_VerifiedIsPermanent ==
    /\ [][\A p \in Addr : verified[p] => verified'[p]]_vars
    /\ [](\A c \in RecordCalls :
            verified[c.project] /\ recordVerificationRevert(c) = ""
                => ~proofValidated[c.proofId])

\* two projects verified, the auditor of one of them revoked since, and
\* every proof id used up
C21_VerifiedAfterRevocation ==
    \E p \in Accounts, q \in Accounts :
        /\ p # q
        /\ verified[p] /\ verified[q]
        /\ ~isApprovedAuditor(projectAuditor[p])
        /\ \A i \in ProofIds : proofValidated[i]

\* C22, as stated: after verifyProof has accepted a payload, a second
\* verifyProof call with the same payload, public inputs and signature is
\* not accepted: no accepted call leads to a state that accepts it again.
C22_NoReplay ==
    \A c \in VerifyCalls :
        ~ENABLED (/\ verifyProof(c.payload, c.publicInputs, c.verifierAnswer).result
                  /\ verifyProofCall(c.payload, c.publicInputs, c.verifierAnswer)
                  /\ UNCHANGED offVars
                  /\ verifyProof(c.payload, c.publicInputs, c.verifierAnswer).result')

\* C23, as stated: a recordVerification call runs to its end only if its
\* auditor is approved in the registry in the state the call executes in,
\* both for a call sent by any account and for the transaction a POST /verify
\* request has sent after its approval check.
C23_ApprovedAtExecution ==
    /\ \A c \in RecordCalls :
           recordVerificationRevert(c) = "" => isApprovedAuditor(c.auditor)
    /\ \A r \in Requests :
           requests[r].pc = "sent" =>
               LET c == verifyArguments(requests[r].record)
               IN recordVerificationRevert(c) = "" => isApprovedAuditor(c.auditor)

\* C24, as stated: a credential written by issueCredential for a subject is
\* used by a recordVerification call that runs to its end only for that
\* subject as the project.  (The subject is the one the stored signature of
\* the credential was made over.)
C24_SubjectBinding ==
    \A c \in RecordCalls :
        /\ recordVerificationRevert(c) = ""
        /\ credentials[c.credentialId].signature # EmptyBytes
        => c.project = credentials[c.credentialId].signature.digest[2][3]

\* C25: whenever a POST /verify request has answered success, the stored
\* ProofRecord of its proofId has validatedOnChain = true and a txnHash and
\* proofValidated of that proofId is true on-chain; and in every state a
\* ProofRecord with validatedOnChain = true has its proofId validated
\* on-chain.
C25_DatabaseMirrorsLedger ==
    /\ \A r \in Requests :
           requests[r].response = "success" =>
               LET record == proofStore[requests[r].proofId]
               IN /\ record.exists
                  /\ record.validatedOnChain
                  /\ record.txnHash # ""
                  /\ proofValidated[proofIdBytes32(record.proofId).value.value]
    /\ \A p \in ProofIds :
           proofStore[p].exists =>
               (proofStore[p].validatedOnChain
                    => proofValidated[proofIdBytes32(proofStore[p].proofId).value.value])

\* a request answered success while another request for the same proofId is
\* still being served
C25_SuccessAnswered ==
    \E r \in Requests, q \in Requests :
        /\ requests[r].response = "success"
        /\ requests[q].proofId = requests[r].proofId
        /\ requests[q].pc \notin {"idle", "done"}

\* C26, as stated, for a request whose transaction was sent: of the POST
\* /verify requests for one proofId at most one answers success, and every
\* other one answers already_validated or onchain_call_failed.
C26_OnlyTheseErrors ==
    \A r \in Requests, q \in Requests :
        /\ r # q
        /\ requests[q].proofId = requests[r].proofId
        /\ requests[r].response = "success"
        /\ requests[q].pc = "done"
        /\ requests[q].sent
        => requests[q].response \in {"already_validated", "onchain_call_failed"}

\* C26, amended: of the POST /verify requests for one proofId at most one
\* answers success; another one that sent no transaction answers with one
\* of the errors of its checks (already_validated, onchain_call_failed,
\* auditor_not_approved, credential_not_anchored), and one whose transaction
\* was sent answers internal_error; a request that reads the record after
\* validatedOnChain was set answers already_validated at once, sends no
\* transaction and leaves the ledger as it is.
C26_AtMostOneSuccess ==
    /\ [](\A r \in Requests, q \in Requests :
            /\ r # q
            /\ requests[q].proofId = requests[r].proofId
            /\ requests[r].response = "success"
            /\ requests[q].pc = "done"
            => IF requests[q].sent
               THEN requests[q].response = "internal_error"
               ELSE requests[q].response \in
                        {"already_validated", "onchain_call_failed",
                         "auditor_not_approved", "credential_not_anchored"})
    /\ [][\A r \in Requests :
             /\ requests[r].pc = "idle"
             /\ requests'[r].pc # "idle"
             /\ proofStore[requests'[r].proofId].exists
             /\ proofStore[requests'[r].proofId].validatedOnChain
             => /\ requests'[r] = [NoRequest EXCEPT !.pc = "done",
                                                    !.proofId = requests'[r].proofId,
                                                    !.response = "already_validated"]
                /\ UNCHANGED chainVars]_vars

\* two requests for the same proofId have both sent their transaction: one
\* has answered success and the other internal_error
C26_BothSent ==
    \E r \in Requests, q \in Requests :
        /\ requests[q].proofId = requests[r].proofId
        /\ requests[r].response = "success"
        /\ requests[q].sent
        /\ requests[q].response = "internal_error"

\* C27, as stated: no two POST /generate requests compute the same proofId,
\* and every request that has signed a proof for an existing credential
\* stores its ProofRecord and answers success.
C27_UniqueProofIds ==
    /\ \A r \in Requests, q \in Requests :
           r # q /\ requests[r].record.exists /\ requests[q].record.exists
               => requests[r].proofId # requests[q].proofId
    /\ \A r \in Requests :
           requests[r].record.exists /\ requests[r].pc = "done"
               => /\ requests[r].response = "success"
                  /\ proofStore[requests[r].proofId] = requests[r].record

\* C28, as stated: after any sequence of approveAuditor and revokeAuditor
\* calls, getApprovedAuditorCount returns the number of distinct addresses
\* for which isApprovedAuditor is true.
C28_CountsApprovedAuditors ==
    getApprovedAuditorCount = Cardinality({a \in Addr : isApprovedAuditor(a)})

\* C29: in every reachable state a verified project has a non-zero
\* projectAuditor and a validated proofId whose proofRecords entry names the
\* project and that auditor and carries the summary hash of an anchored
\* credential issued by that auditor; and proofValidated[p] is true exactly
\* when proofRecords[p] is not the zero record.
C29_VerifiedHasRecord ==
    /\ \A project \in Addr :
           verified[project] =>
               /\ projectAuditor[project] # ZeroAddr
               /\ \E p \in ProofIds :
                      /\ proofValidated[p]
                      /\ proofRecords[p].project = project
                      /\ proofRecords[p].auditor = projectAuditor[project]
                      /\ \E id \in Ids :
                             /\ credentialAnchored[id]
                             /\ credentials[id].issuer = projectAuditor[project]
                             /\ credentials[id].summaryHash = proofRecords[p].summaryHash
    /\ \A p \in ProofIds : proofValidated[p] <=> proofRecords[p] # NoProofRecord

\* one project verified in a later block than its credential was anchored,
\* with one proof id validated and the other one not
C29_OneRecordWritten ==
    \E project \in Accounts, p \in ProofIds, q \in ProofIds, id \in Ids :
        /\ verified[project]
        /\ proofValidated[p]
        /\ proofRecords[p].project = project
        /\ ~proofValidated[q]
        /\ credentialAnchored[id]
        /\ credentials[id].timestamp < proofRecords[p].timestamp

\* C30, as stated: under approveAuditor, revokeAuditor and the credential
\* writes that call incrementCredentialCount, no auditor's credentialCount
\* ever decreases.
C30_CountsOnlyGrow ==
    [][\A a \in Addr :
          auditors'[a].credentialCount >= auditors[a].credentialCount]_vars
====
